---- MODULE Spec2Model ----
(***************************************************************************)
(* Quality scoring, pairwise comparison, the analyzers, the recommender   *)
(* and the paired pipeline run of codeinsight-mini.                        *)
(*                                                                         *)
(*   _compute_quality_score   src/codeinsight/agents/adk_flow_integration.py*)
(*   compare_results          src/codeinsight/pipeline/runner.py           *)
(*   run_radon                src/codeinsight/analyzers/radon_runner.py    *)
(*   run_pylint               src/codeinsight/analyzers/pylint_runner.py   *)
(*   build_recommendations    src/codeinsight/recommend/recommender.py     *)
(*   run_pipeline_pair        src/codeinsight/pipeline/runner.py           *)
(*   step_llm_refactor        src/codeinsight/agents/adk_flow_integration.py*)
(*   build_compare_payload    src/codeinsight/agents/adk_flow_integration.py*)
(*   run_pipeline             src/codeinsight/pipeline/runner.py           *)
(*                                                                         *)
(* Each of them has its own specification over the same variables; the     *)
(* variables of the others stay at their idle values.                      *)
(*                                                                         *)
(* Numbers.  Python floats are modelled by exact rationals num/den; the    *)
(* builtin round() is round-half-to-even.  MI values, counts and totals    *)
(* are drawn from integers (and, for the comparison, from quarter units),  *)
(* for which the float computation of the source and the exact one agree   *)
(* for up to two file records.                                             *)
(*                                                                         *)
(* Strings that the code transforms (dictionary keys that are stripped     *)
(* and lower-cased, paths whose last component is taken) are sequences of  *)
(* one-character strings, resp. of path components.                        *)
(***************************************************************************)
EXTENDS Integers, Sequences, FiniteSets, TLC

VARIABLES
    result,     \* the analysis result handed to _compute_quality_score
    score,      \* the value _compute_quality_score returned for it
    prev,       \* the score of the result before the last change of a count
    pc,         \* position of the scoring run
    a, b,       \* the two analysis results handed to compare_results
    cmp,        \* the comparison snapshot compare_results returned
    cpc,        \* position of the comparison run
    rad,        \* a run of run_radon: directory, loop position, per_file, outcome
    lint,       \* a run of run_pylint: environment, position, outcome
    rec,        \* a run of build_recommendations: analysis and outcome
    pair,       \* a run of run_pipeline_pair: workers, clock, report files, caller
    ref,        \* a run of step_llm_refactor: files, agent, ideas, generation calls
    flow,       \* a run of run_pipeline on one project: context, result, reports
    payload     \* what build_compare_payload returned for the results a and b

vars ==
    <<result, score, prev, pc, a, b, cmp, cpc, rad, lint, rec, pair, ref, flow, payload>>

scoreVars == <<result, score, prev, pc>>

compareVars == <<a, b, cmp, cpc>>

extVars == <<rad, lint, rec, pair, ref, flow, payload>>

----------------------------------------------------------------------------
(* Bounds *)

MaxFiles == 2       \* file records in a scored result
MaxCount == 2       \* largest count under one by_type key

----------------------------------------------------------------------------
(* Values that stand for "absent" *)

None == "None"          \* no value yet
NoScore == -1           \* no score computed yet

----------------------------------------------------------------------------
(* Arithmetic helpers: Python's max, min, sum, round on exact rationals *)

Max(x, y) == IF x >= y THEN x ELSE y

Min(x, y) == IF x <= y THEN x ELSE y

RECURSIVE SumSeq(_)
SumSeq(s) == IF s = <<>> THEN 0 ELSE Head(s) + SumSeq(Tail(s))

\* round(num/den) for den > 0: nearest integer, ties to the even one
Round(num, den) ==
    LET fl == num \div den
        twice == 2 * (num - fl * den)
    IN  IF twice > den THEN fl + 1
        ELSE IF twice < den THEN fl
        ELSE IF fl % 2 = 0 THEN fl ELSE fl + 1

\* round(num/den, k) as an integer number of 10^-k
Pow10(k) == IF k = 0 THEN 1 ELSE IF k = 1 THEN 10 ELSE 100

RoundTo(num, den, k) == Round(num * Pow10(k), den)

----------------------------------------------------------------------------
(* str.strip() and str.lower() on keys *)

UpperCase == <<"A","B","C","D","E","F","G","H","I","J","K","L","M",
               "N","O","P","Q","R","S","T","U","V","W","X","Y","Z">>

LowerCase == <<"a","b","c","d","e","f","g","h","i","j","k","l","m",
               "n","o","p","q","r","s","t","u","v","w","x","y","z">>

Whitespace == {" ", "\t", "\n"}

LowerMap ==
    [ch \in {UpperCase[i] : i \in 1..26} |->
        LowerCase[CHOOSE i \in 1..26 : UpperCase[i] = ch]]

LowerChar(ch) == IF ch \in DOMAIN LowerMap THEN LowerMap[ch] ELSE ch

Lower(s) == [i \in 1..Len(s) |-> LowerChar(s[i])]

RECURSIVE LStrip(_)
LStrip(s) == IF s # <<>> /\ Head(s) \in Whitespace THEN LStrip(Tail(s)) ELSE s

RECURSIVE RStrip(_)
RStrip(s) ==
    IF s # <<>> /\ s[Len(s)] \in Whitespace
    THEN RStrip(SubSeq(s, 1, Len(s) - 1))
    ELSE s

Strip(s) == RStrip(LStrip(s))

----------------------------------------------------------------------------
(* _compute_quality_score *)

\* weights of the five severity buckets, in tenths
PYLINT_W == [C |-> 6, R |-> 8, W |-> 10, E |-> 30, F |-> 80]

RADON_W_MI == 20    \* tenths per MI warning

RADON_W_CC == 15    \* tenths per CC hotspot

DENSITY_THRESHOLD == 3

DENSITY_SLOPE == 2

Buckets == {"C", "R", "W", "E", "F"}

ShortName == [C |-> <<"c">>, R |-> <<"r">>, W |-> <<"w">>, E |-> <<"e">>, F |-> <<"f">>]

LongName ==
    [C |-> <<"c","o","n","v","e","n","t","i","o","n">>,
     R |-> <<"r","e","f","a","c","t","o","r">>,
     W |-> <<"w","a","r","n","i","n","g">>,
     E |-> <<"e","r","r","o","r">>,
     F |-> <<"f","a","t","a","l">>]

\* the bucket a raw key adds to, or None
BucketOfNoStrip(k) ==
    LET key == Lower(k)
    IN  IF \E bk \in Buckets : key \in {ShortName[bk], LongName[bk]}
        THEN CHOOSE bk \in Buckets : key \in {ShortName[bk], LongName[bk]}
        ELSE None

BucketOf(k) ==
    LET key == Lower(Strip(k))
    IN  IF \E bk \in Buckets : key \in {ShortName[bk], LongName[bk]}
        THEN CHOOSE bk \in Buckets : key \in {ShortName[bk], LongName[bk]}
        ELSE None

RECURSIVE SumOver(_, _)
SumOver(f, S) ==
    IF S = {} THEN 0
    ELSE LET x == CHOOSE y \in S : TRUE IN f[x] + SumOver(f, S \ {x})

\* out[bucket] after the loop over bt.items(); bt.count[k] is the value under
\* key k and bt.not_int the keys whose value int(v) rejects
_pylint_counts(bt) ==
    [bk \in Buckets |->
        LET ks == {k \in DOMAIN bt.count : k \notin bt.not_int /\ BucketOf(k) = bk}
        IN  SumOver(bt.count, ks)]

\* [float(f.get("mi", 0.0)) for f in r_files]
mi_vals(r_files) ==
    [i \in 1..Len(r_files) |-> IF r_files[i].has_mi THEN r_files[i].mi ELSE 0]

\* avg_mi as a rational
avg_mi_zero_default(r_files) ==
    IF r_files # <<>>
    THEN [num |-> SumSeq(mi_vals(r_files)), den |-> Max(1, Len(r_files))]
    ELSE [num |-> 0, den |-> 1]

avg_mi(r_files) ==
    IF r_files # <<>>
    THEN [num |-> SumSeq(mi_vals(r_files)), den |-> Max(1, Len(r_files))]
    ELSE [num |-> 50, den |-> 1]

\* pylint_penalty, in tenths
pylint_penalty(by_type_raw) ==
    LET counts == _pylint_counts(by_type_raw)
    IN  SumOver([bk \in Buckets |-> PYLINT_W[bk] * counts[bk]], Buckets)

\* radon_penalty, in tenths
radon_penalty(rsum) == RADON_W_MI * rsum.mi_warnings + RADON_W_CC * rsum.cc_hotspots

\* files_scanned = (len(r_files) or int(rsum.get("files") or 1))
files_scanned(r_files, rsum) ==
    IF Len(r_files) # 0 THEN Len(r_files)
    ELSE IF rsum.files # 0 THEN rsum.files ELSE 1

\* density_penalty as a rational; per_file = total_msgs / max(1, files_scanned)
density_penalty_unguarded(total_msgs, fs) ==
    LET d == Max(1, fs)
    IN  [num |-> (total_msgs - DENSITY_THRESHOLD * d) * DENSITY_SLOPE, den |-> d]

density_penalty(total_msgs, fs) ==
    LET d == Max(1, fs)
    IN  IF total_msgs > DENSITY_THRESHOLD * d
        THEN [num |-> (total_msgs - DENSITY_THRESHOLD * d) * DENSITY_SLOPE, den |-> d]
        ELSE [num |-> 0, den |-> d]

\* raw = avg_mi - (pylint_penalty + radon_penalty + density_penalty), a rational
raw_penalty_added(res) ==
    LET base == avg_mi(res.radon.files)
        tenths == pylint_penalty(res.pylint.by_type) + radon_penalty(res.radon.summary)
        dens == density_penalty(res.pylint.total,
                                files_scanned(res.radon.files, res.radon.summary))
    IN  [num |-> 10 * dens.den * base.num
                 + base.den * dens.den * tenths
                 + 10 * base.den * dens.num,
         den |-> 10 * base.den * dens.den]

raw(res) ==
    LET base == avg_mi(res.radon.files)
        tenths == pylint_penalty(res.pylint.by_type) + radon_penalty(res.radon.summary)
        dens == density_penalty(res.pylint.total,
                                files_scanned(res.radon.files, res.radon.summary))
        den == 10 * base.den * dens.den
    IN  [num |-> 10 * dens.den * base.num
                 - base.den * dens.den * tenths
                 - 10 * base.den * dens.num,
         den |-> den]

\* int(max(lo, min(hi, x))) with lo = 0.0, hi = 100.0
_clamp_no_floor(x) == Min(100, x)

_clamp(x) == Max(0, Min(100, x))

_compute_quality_score(res) ==
    LET r == raw(res) IN _clamp(Round(r.num, r.den))

----------------------------------------------------------------------------
(* Inputs of the scoring run *)

MIValues == {60, 90, 130}

\* a file record; has_mi is whether the record carries the key "mi"
FileRecords == [has_mi : {TRUE}, mi : MIValues] \cup {[has_mi |-> FALSE, mi |-> 0]}

\* the lists of file records, up to their order: the score reads them through
\* sum() and len() only, so one order of each list is drawn, MI ascending
FileLists ==
    {fl \in UNION {[1..n -> FileRecords] : n \in 0..MaxFiles} :
        \A i \in 1..(Len(fl) - 1) : fl[i].mi <= fl[i + 1].mi}

kC == <<"C">>
kConvention == <<"c","o","n","v","e","n","t","i","o","n">>
kR == <<"r">>
kRefactor == <<"R","e","f","a","c","t","o","r">>
kW == <<"W">>
kWarning == <<"w","a","r","n","i","n","g">>
kWarningPadded == <<" ","W","a","r","n","i","n","g"," ">>
kE == <<"E">>
kError == <<"e","r","r","o","r">>
kF == <<"F">>
kFatal == <<"F","A","T","A","L">>
kInfo == <<"i","n","f","o">>
kUnknown == <<"u","n","k","n","o","w","n">>

KeySets ==
    { {}, {kWarning}, {kW, kWarningPadded}, {kC, kConvention}, {kR, kRefactor},
      {kE, kError}, {kF, kInfo}, {kUnknown, kFatal} }

ByTypes ==
    {[count |-> c, not_int |-> {}] : c \in UNION {[KS -> 0..MaxCount] : KS \in KeySets}}
    \cup {[count |-> [k \in {kWarning, kFatal} |-> 1], not_int |-> {kFatal}]}

LintTotals == {0, 2, 3, 4, 7}

\* values of summary.mi_warnings and of summary.cc_hotspots
SummaryCounts == {0, 1}

\* summary.files is len(per_file) in every result run_radon builds
ResultOf(fl, mw, ch, bt, t) ==
    [radon |-> [files |-> fl,
                summary |-> [files |-> Len(fl), mi_warnings |-> mw, cc_hotspots |-> ch]],
     pylint |-> [by_type |-> bt, total |-> t]]

----------------------------------------------------------------------------
(* The scoring run *)

CompareIdle ==
    /\ a = None
    /\ b = None
    /\ cmp = None
    /\ cpc = "idle"

RadonIdle == rad = None

PylintIdle == lint = None

RecommendIdle == rec = None

PairIdle == pair = None

RefactorIdle == ref = None

FlowIdle == flow = None

PayloadIdle == payload = None

ExtIdle ==
    /\ RadonIdle /\ PylintIdle /\ RecommendIdle /\ PairIdle /\ RefactorIdle /\ FlowIdle
    /\ PayloadIdle

Init ==
    /\ \E fl \in FileLists, mw \in SummaryCounts, ch \in SummaryCounts,
          bt \in ByTypes, t \in LintTotals :
            result = ResultOf(fl, mw, ch, bt, t)
    /\ score = NoScore
    /\ prev = NoScore
    /\ pc = "start"
    /\ CompareIdle
    /\ ExtIdle

\* qs = _compute_quality_score(result)
Score ==
    /\ pc = "start"
    /\ score' = _compute_quality_score(result)
    /\ pc' = "scored"
    /\ UNCHANGED <<result, prev>>
    /\ UNCHANGED compareVars
    /\ UNCHANGED extVars

\* the same result with one more finding counted under key k, scored again
RaiseCount(k) ==
    /\ pc = "scored"
    /\ k \in DOMAIN result.pylint.by_type.count
    /\ k \notin result.pylint.by_type.not_int
    /\ result.pylint.by_type.count[k] < MaxCount
    /\ result' = [result EXCEPT !.pylint.by_type.count[k] = @ + 1]
    /\ prev' = score
    /\ score' = _compute_quality_score(result')
    /\ pc' = "scored"
    /\ UNCHANGED compareVars
    /\ UNCHANGED extVars

Next ==
    \/ Score
    \/ \E k \in UNION KeySets : RaiseCount(k)

Spec == Init /\ [][Next]_vars

----------------------------------------------------------------------------
(* compare_results (pipeline/runner.py)                                    *)
(*                                                                         *)
(* An analysis result handed to the comparison is                          *)
(*   [present, quality_score, issues_found, files_scanned, pylint_total,   *)
(*    files]                                                               *)
(* where present is the set of top-level keys the dictionary has and files *)
(* is radon.files, each file [path, mi, cc_avg].  A path is its sequence   *)
(* of components; mi and cc_avg are in hundredths.  Row values A and B are *)
(* in tenths, delta is in hundredths.                                      *)

\* res.get(key, default)
Get(res, key, default) == IF key \in res.present THEN res[key] ELSE default

\* sum(seq) / len(seq) if seq else 0.0, as a rational in hundredths
_avg(seq) ==
    IF seq # <<>> THEN [num |-> SumSeq(seq), den |-> Len(seq)]
    ELSE [num |-> 0, den |-> 1]

\* (mean of mi, mean of cc_avg) over radon.files
_radon_avgs(res) ==
    LET files == Get(res, "files", <<>>)
    IN  [mi |-> _avg([i \in 1..Len(files) |-> files[i].mi]),
         cc |-> _avg([i \in 1..Len(files) |-> files[i].cc_avg])]

_pylint_total(res) == Get(res, "pylint_total", 0)

\* Path(p).name
PathName(p) == IF p = <<>> THEN "" ELSE p[Len(p)]

\* sorted(files, key=cc_avg, reverse=True): stable, equal keys keep their order
RECURSIVE InsertDesc(_, _)
InsertDesc(f, sorted) ==
    IF sorted = <<>> THEN <<f>>
    ELSE IF Head(sorted).cc_avg >= f.cc_avg
         THEN <<Head(sorted)>> \o InsertDesc(f, Tail(sorted))
         ELSE <<f>> \o sorted

RECURSIVE SortedDesc(_)
SortedDesc(files) ==
    IF files = <<>> THEN <<>>
    ELSE InsertDesc(files[Len(files)], SortedDesc(SubSeq(files, 1, Len(files) - 1)))

TopN == 5

\* the files _top_hotspots lists, in its order
files_sorted(res) ==
    LET ranked == SortedDesc(Get(res, "files", <<>>))
    IN  SubSeq(ranked, 1, Min(TopN, Len(ranked)))

_top_hotspots(res) ==
    LET top == files_sorted(res)
    IN  [i \in 1..Len(top) |->
            [file |-> PathName(top[i].path),
             cc_avg |-> RoundTo(top[i].cc_avg, 100, 1),
             mi |-> RoundTo(top[i].mi, 100, 1)]]

better_high_score_only == {"quality_score"}

better_high == {"quality_score", "mi_avg"}

\* r["better"] for a row with values A and B
better_no_tie(metric, A, B) ==
    IF metric \in better_high THEN (IF A > B THEN "A" ELSE "B")
    ELSE (IF A < B THEN "A" ELSE "B")

better(metric, A, B) ==
    IF A = B THEN "="
    ELSE IF metric \in better_high THEN (IF A > B THEN "A" ELSE "B")
    ELSE (IF A < B THEN "A" ELSE "B")

Row_A_minus_B(metric, A, B) ==
    [metric |-> metric, A |-> A, B |-> B,
     delta |-> RoundTo(A - B, 10, 2),
     better |-> better(metric, A, B)]

Row(metric, A, B) ==
    [metric |-> metric, A |-> A, B |-> B,
     delta |-> RoundTo(B - A, 10, 2),
     better |-> better(metric, A, B)]

compare_results(ra, rb) ==
    LET avg_a == _radon_avgs(ra)
        avg_b == _radon_avgs(rb)
    IN  [metrics |->
            << Row("quality_score", 10 * Get(ra, "quality_score", 0),
                                    10 * Get(rb, "quality_score", 0)),
               Row("issues_found", 10 * Get(ra, "issues_found", 0),
                                   10 * Get(rb, "issues_found", 0)),
               Row("files_scanned", 10 * Get(ra, "files_scanned", 0),
                                    10 * Get(rb, "files_scanned", 0)),
               Row("pylint_total", 10 * _pylint_total(ra), 10 * _pylint_total(rb)),
               Row("mi_avg", RoundTo(avg_a.mi.num, 100 * avg_a.mi.den, 1),
                             RoundTo(avg_b.mi.num, 100 * avg_b.mi.den, 1)),
               Row("cc_avg", RoundTo(avg_a.cc.num, 100 * avg_a.cc.den, 1),
                             RoundTo(avg_b.cc.num, 100 * avg_b.cc.den, 1)) >>,
         top_hotspots |-> [A |-> _top_hotspots(ra), B |-> _top_hotspots(rb)]]

----------------------------------------------------------------------------
(* Inputs of the comparison run *)

MaxCmpFiles == 2    \* files of a compared result drawn from FilePool

fA == [path |-> <<"pkg", "a.py">>, mi |-> 8000, cc_avg |-> 500]
fB == [path |-> <<"pkg", "b.py">>, mi |-> 4000, cc_avg |-> 500]
fC == [path |-> <<"c.py">>, mi |-> 6525, cc_avg |-> 1225]

FilePool == {fA, fB, fC}

\* a project of six files, two of them with the same base name
SixFiles ==
    << [path |-> <<"x", "m.py">>, mi |-> 9000, cc_avg |-> 100],
       [path |-> <<"x", "n.py">>, mi |-> 7000, cc_avg |-> 300],
       [path |-> <<"y", "m.py">>, mi |-> 5000, cc_avg |-> 300],
       [path |-> <<"y", "o.py">>, mi |-> 6000, cc_avg |-> 1500],
       [path |-> <<"p.py">>, mi |-> 8025, cc_avg |-> 225],
       [path |-> <<"q.py">>, mi |-> 3000, cc_avg |-> 700] >>

CmpFileLists ==
    {fl \in UNION {[1..n -> FilePool] : n \in 0..MaxCmpFiles} :
        \A i, j \in 1..Len(fl) : i # j => fl[i] # fl[j]}
    \cup {SixFiles}

AllKeys == {"quality_score", "issues_found", "files_scanned", "pylint_total", "files"}

\* result dictionaries that lack one of the keys; the record field of the
\* missing key carries no information
IncompleteInputs ==
    {[present |-> AllKeys \ {k},
      quality_score |-> IF k = "quality_score" THEN 0 ELSE 80,
      issues_found |-> IF k = "issues_found" THEN 0 ELSE 4,
      files_scanned |-> IF k = "files_scanned" THEN 0 ELSE 1,
      pylint_total |-> IF k = "pylint_total" THEN 0 ELSE 3,
      files |-> IF k = "files" THEN <<>> ELSE <<fA>>] : k \in AllKeys}

\* files_scanned is the number of file records and issues_found is at least
\* the lint total, as step_merge builds them
CmpInputs ==
    {[present |-> AllKeys, quality_score |-> q, issues_found |-> t + x,
      files_scanned |-> Len(fl), pylint_total |-> t, files |-> fl] :
        q \in {65, 80}, t \in {0, 3}, x \in {0, 1}, fl \in CmpFileLists}
    \cup IncompleteInputs

----------------------------------------------------------------------------
(* The comparison run *)

ScoreIdle ==
    /\ result = None
    /\ score = NoScore
    /\ prev = NoScore
    /\ pc = "idle"

InitCompare ==
    /\ a \in CmpInputs
    /\ b \in CmpInputs
    /\ cmp = None
    /\ cpc = "start"
    /\ ScoreIdle
    /\ ExtIdle

\* cmp = compare_results(res_a, res_b)
Compare ==
    /\ cpc = "start"
    /\ cmp' = compare_results(a, b)
    /\ cpc' = "compared"
    /\ UNCHANGED <<a, b>>
    /\ UNCHANGED scoreVars
    /\ UNCHANGED extVars

NextCompare == Compare

SpecCompare == InitCompare /\ [][NextCompare]_vars

----------------------------------------------------------------------------
(* build_compare_payload (agents/adk_flow_integration.py), the comparison  *)
(* of the agent-flow module, applied to the same two results.  Its row     *)
(* values A and B and its delta are in hundredths.                         *)

\* round(sum(float(f["mi"]) for f in files) / len(files), 2), 0.0 without files
_avg_mi(res) ==
    LET files == Get(res, "files", <<>>)
    IN  IF files = <<>> THEN 0
        ELSE Round(SumSeq([i \in 1..Len(files) |-> files[i].mi]), Len(files))

_avg_cc(res) ==
    LET files == Get(res, "files", <<>>)
    IN  IF files = <<>> THEN 0
        ELSE Round(SumSeq([i \in 1..Len(files) |-> files[i].cc_avg]), Len(files))

\* float(f.get("mi", 999)) of the sort key
MiKey(f) == IF "mi" \in DOMAIN f THEN f.mi ELSE 99900

\* sorted(files, key=lambda f: (-cc_avg, mi)): stable
RECURSIVE InsertWorst(_, _)
InsertWorst(f, sorted) ==
    IF sorted = <<>> THEN <<f>>
    ELSE LET h == Head(sorted)
         IN  IF h.cc_avg > f.cc_avg \/ (h.cc_avg = f.cc_avg /\ MiKey(h) <= MiKey(f))
             THEN <<h>> \o InsertWorst(f, Tail(sorted))
             ELSE <<f>> \o sorted

RECURSIVE SortedWorst(_)
SortedWorst(files) ==
    IF files = <<>> THEN <<>>
    ELSE InsertWorst(files[Len(files)], SortedWorst(SubSeq(files, 1, Len(files) - 1)))

\* _top_hotspots of the agent-flow module: ranked[:top], the file by its path
flow_top_hotspots(res) ==
    LET ranked == SortedWorst(Get(res, "files", <<>>))
        top == SubSeq(ranked, 1, Min(TopN, Len(ranked)))
    IN  [i \in 1..Len(top) |->
            [file |-> top[i].path,
             mi |-> RoundTo(top[i].mi, 100, 1),
             cc_avg |-> RoundTo(top[i].cc_avg, 100, 1)]]

\* a row of build_compare_payload: delta = round(B - A, 2)
PayloadRow(metric, A, B) ==
    [metric |-> metric, A |-> A, B |-> B,
     delta |-> RoundTo(B - A, 100, 2),
     better |-> better(metric, A, B)]

build_compare_payload(res_a, res_b) ==
    [metrics |->
        << PayloadRow("quality_score", 100 * Get(res_a, "quality_score", 0),
                                       100 * Get(res_b, "quality_score", 0)),
           PayloadRow("issues_found", 100 * Get(res_a, "issues_found", 0),
                                      100 * Get(res_b, "issues_found", 0)),
           PayloadRow("files_scanned", 100 * Get(res_a, "files_scanned", 0),
                                       100 * Get(res_b, "files_scanned", 0)),
           PayloadRow("pylint_total", 100 * _pylint_total(res_a), 100 * _pylint_total(res_b)),
           PayloadRow("mi_avg", _avg_mi(res_a), _avg_mi(res_b)),
           PayloadRow("cc_avg", _avg_cc(res_a), _avg_cc(res_b)) >>,
     top_hotspots |-> [A |-> flow_top_hotspots(res_a), B |-> flow_top_hotspots(res_b)]]

\* the well-formed results: every field present
WellFormedInputs == {r \in CmpInputs : r.present = AllKeys}

InitAgree ==
    /\ a \in WellFormedInputs
    /\ b \in WellFormedInputs
    /\ cmp = None
    /\ cpc = "start"
    /\ payload = [st |-> "start", metrics |-> <<>>, top_hotspots |-> [A |-> <<>>, B |-> <<>>]]
    /\ ScoreIdle
    /\ RadonIdle /\ PylintIdle /\ RecommendIdle /\ PairIdle /\ RefactorIdle /\ FlowIdle

BuildPayload ==
    /\ payload.st = "start"
    /\ payload' = [st |-> "built",
                   metrics |-> build_compare_payload(a, b).metrics,
                   top_hotspots |-> build_compare_payload(a, b).top_hotspots]
    /\ UNCHANGED <<scoreVars, compareVars, rad, lint, rec, pair, ref, flow>>

NextAgree == Compare \/ BuildPayload

SpecAgree == InitAgree /\ [][NextAgree]_vars

----------------------------------------------------------------------------
(* run_radon (analyzers/radon_runner.py)                                   *)
(*                                                                         *)
(* A directory is the sequence of the *.py files rglob yields.  An entry   *)
(* is [path, ok, mi, cc]: ok tells whether analyze_file returns for it     *)
(* (read_text, cc_visit and mi_visit all succeed), mi is the value of      *)
(* mi_visit in hundredths and cc the complexities of its blocks.           *)

MaxDir == 3         \* files in an analysed directory

\* total_complexity / len(cc_blocks), in hundredths; 0.0 without blocks
calculate_average_complexity(cc_blocks) ==
    IF cc_blocks = <<>> THEN 0
    ELSE (100 * SumSeq(cc_blocks)) \div Len(cc_blocks)

\* the record analyze_file returns for an entry it can read and parse
analyze_file(e) ==
    [path |-> e.path, has_mi |-> TRUE, mi |-> e.mi,
     cc_items |-> [i \in 1..Len(e.cc) |-> [cc |-> e.cc[i]]],
     cc_avg |-> calculate_average_complexity(e.cc)]

\* the MI a record counts with: f.get("mi", 100)
mi_or_100(f) == IF f.has_mi THEN f.mi ELSE 10000

\* sum(1 for f in per_file if f.get("mi", 100) < maintainability_threshold)
mi_warn_le(per_file, mt) ==
    SumSeq([k \in 1..Len(per_file) |->
              IF mi_or_100(per_file[k]) <= 100 * mt THEN 1 ELSE 0])

mi_warn(per_file, mt) ==
    SumSeq([k \in 1..Len(per_file) |->
              IF mi_or_100(per_file[k]) < 100 * mt THEN 1 ELSE 0])

\* sum(1 for i in f.get("cc_items", []) if i.get("cc", 0) > complexity_threshold)
hot_items(f, ct) ==
    SumSeq([n \in 1..Len(f.cc_items) |-> IF f.cc_items[n].cc > ct THEN 1 ELSE 0])

\* sum(... for f in per_file)
cc_hot(per_file, ct) ==
    SumSeq([k \in 1..Len(per_file) |-> hot_items(per_file[k], ct)])

\* the dictionary run_radon returns
radon_result(per_file, cfg) ==
    [summary |-> [files |-> Len(per_file),
                  mi_warnings |-> mi_warn(per_file, cfg.maintainability_threshold),
                  cc_hotspots |-> cc_hot(per_file, cfg.complexity_threshold)],
     files |-> per_file]

DefaultConfig == [complexity_threshold |-> 10, maintainability_threshold |-> 65]

RadonConfigs == {DefaultConfig, [complexity_threshold |-> 3, maintainability_threshold |-> 90]}

DirEntries ==
    { [path |-> <<"pkg", "a.py">>, ok |-> TRUE, mi |-> 6500, cc |-> <<10, 11>>],
      [path |-> <<"pkg", "b.py">>, ok |-> TRUE, mi |-> 6475, cc |-> <<3, 15, 12>>],
      [path |-> <<"c.py">>, ok |-> TRUE, mi |-> 9000, cc |-> <<>>],
      [path |-> <<"bad.py">>, ok |-> FALSE, mi |-> 0, cc |-> <<>>] }

Directories ==
    {d \in UNION {[1..n -> DirEntries] : n \in 0..MaxDir} :
        \A i, j \in 1..Len(d) : i # j => d[i] # d[j]}

InitRadon ==
    /\ \E d \in Directories, cfg \in RadonConfigs :
          rad = [dir |-> d, config |-> cfg, i |-> 1, per_file |-> <<>>,
                 st |-> "loop", out |-> radon_result(<<>>, cfg)]
    /\ ScoreIdle
    /\ CompareIdle
    /\ PylintIdle /\ RecommendIdle /\ PairIdle /\ RefactorIdle /\ FlowIdle /\ PayloadIdle

RadonFrame == UNCHANGED <<scoreVars, compareVars, lint, rec, pair, ref, flow, payload>>

\* res = analyze_file(p, ...); per_file.append(res)
RadonAnalyze ==
    /\ rad.st = "loop"
    /\ rad.i <= Len(rad.dir)
    /\ rad.dir[rad.i].ok
    /\ rad' = [rad EXCEPT !.per_file = Append(@, analyze_file(rad.dir[rad.i])),
                          !.i = @ + 1]
    /\ RadonFrame

\* analyze_file raises (unreadable file, source that cc_visit cannot parse);
\* nothing in run_radon catches it
RadonAnalyzeRaises ==
    /\ rad.st = "loop"
    /\ rad.i <= Len(rad.dir)
    /\ ~rad.dir[rad.i].ok
    /\ rad' = [rad EXCEPT !.st = "raised"]
    /\ RadonFrame

\* the loop is over: count and return
RadonReturn ==
    /\ rad.st = "loop"
    /\ rad.i > Len(rad.dir)
    /\ rad' = [rad EXCEPT !.st = "returned",
                          !.out = radon_result(rad.per_file, rad.config)]
    /\ RadonFrame

NextRadon == RadonAnalyze \/ RadonAnalyzeRaises \/ RadonReturn

SpecRadon == InitRadon /\ [][NextRadon]_vars

----------------------------------------------------------------------------
(* run_pylint (analyzers/pylint_runner.py)                                 *)
(*                                                                         *)
(* The environment answers each call when it is made: whether the imports  *)
(* succeeded, how PylintRun and subprocess.run end, what text they leave.  *)
(* A message is [type, category]; "" stands for an absent or empty field.  *)

MaxMsgs == 2        \* messages in one pylint output

Severities == {"convention", "refactor", "warning", "error", "fatal"}

Messages ==
    { [type |-> "convention", category |-> ""],
      [type |-> "warning", category |-> ""],
      [type |-> "error", category |-> ""],
      [type |-> "info", category |-> ""],
      [type |-> "", category |-> "refactor"],
      [type |-> "", category |-> ""] }

MessageLists == UNION {[1..n -> Messages] : n \in 0..MaxMsgs}

\* t = m.get("type") or m.get("category") or "unknown"
TypeOf(m) ==
    IF m.type # "" THEN m.type
    ELSE IF m.category # "" THEN m.category
    ELSE "unknown"

\* for m in msgs: by_type[t] = by_type.get(t, 0) + 1
RECURSIVE CountTypes(_, _)
CountTypes(msgs, by_type) ==
    IF msgs = <<>> THEN by_type
    ELSE LET t == TypeOf(Head(msgs))
             n == IF t \in DOMAIN by_type THEN by_type[t] ELSE 0
         IN  CountTypes(Tail(msgs),
                        [k \in DOMAIN by_type \cup {t} |->
                            IF k = t THEN n + 1 ELSE by_type[k]])

EmptyByType == [k \in {} |-> 0]

\* {"summary": {"total": len(msgs), "by_type": by_type}, "messages": msgs}
lint_result(msgs) ==
    [summary |-> [total |-> Len(msgs), by_type |-> CountTypes(msgs, EmptyByType)],
     messages |-> msgs]

\* {"summary": {"total": 0, "by_type": {}}, "messages": []}
LintDefault == [summary |-> [total |-> 0, by_type |-> EmptyByType], messages |-> <<>>]

\* how a call of PylintRun can end
RunOutcomes == {"ok", "TypeError", "SystemExit", "Exception"}

\* what the reporter's buffer or the subprocess's stdout can hold
Outputs ==
    {[kind |-> "empty", msgs |-> <<>>], [kind |-> "unparseable", msgs |-> <<>>]}
        \cup {[kind |-> "json", msgs |-> ms] : ms \in MessageLists}

\* how subprocess.run can end: with output, or raising
SubprocessOutcomes == {"completed", "FileNotFoundError", "TimeoutExpired", "Exception"}

InitPylint ==
    /\ \E fs \in BOOLEAN, rep \in BOOLEAN, run \in BOOLEAN :
          lint = [has_files |-> fs, JSONReporter |-> rep, PylintRun |-> run,
                  st |-> "start", via |-> "none", out |-> LintDefault]
    /\ ScoreIdle
    /\ CompareIdle
    /\ RadonIdle /\ RecommendIdle /\ PairIdle /\ RefactorIdle /\ FlowIdle /\ PayloadIdle

PylintFrame == UNCHANGED <<scoreVars, compareVars, rad, rec, pair, ref, flow, payload>>

\* run_pylint up to the API call: no files, no reporter class, no Run class
PylintStart ==
    /\ lint.st = "start"
    /\ lint' = IF ~lint.has_files
                  THEN [lint EXCEPT !.st = "returned", !.via = "default"]
               ELSE IF ~lint.JSONReporter \/ ~lint.PylintRun
                  THEN [lint EXCEPT !.st = "subprocess"]
               ELSE [lint EXCEPT !.st = "modern"]
    /\ PylintFrame

\* PylintRun(args, reporter=reporter, do_exit=False) under except TypeError
PylintApiModern ==
    /\ lint.st = "modern"
    /\ \E o \in RunOutcomes :
          lint' = [lint EXCEPT !.st = CASE o = "ok" -> "parse"
                                      [] o = "TypeError" -> "legacy"
                                      [] OTHER -> "raised"]
    /\ PylintFrame

\* PylintRun(args, reporter=reporter, exit=False) under except TypeError
PylintApiLegacy ==
    /\ lint.st = "legacy"
    /\ \E o \in RunOutcomes :
          lint' = [lint EXCEPT !.st = CASE o = "ok" -> "parse"
                                      [] o = "TypeError" -> "ancient"
                                      [] OTHER -> "raised"]
    /\ PylintFrame

\* PylintRun(args, reporter=reporter) under except SystemExit / Exception
PylintApiAncient ==
    /\ lint.st = "ancient"
    /\ \E o \in RunOutcomes :
          lint' = [lint EXCEPT !.st = IF o \in {"ok", "SystemExit"} THEN "parse"
                                     ELSE "subprocess"]
    /\ PylintFrame

\* raw = buf.getvalue().strip(); json.loads(raw) under except JSONDecodeError
PylintParse ==
    /\ lint.st = "parse"
    /\ \E buf \in Outputs :
          lint' = IF buf.kind = "json"
                    THEN [lint EXCEPT !.st = "returned", !.via = "api",
                                      !.out = lint_result(buf.msgs)]
                  ELSE [lint EXCEPT !.st = "subprocess"]
    /\ PylintFrame

\* _run_pylint_subprocess: every exception is swallowed
PylintSubprocess ==
    /\ lint.st = "subprocess"
    /\ \E o \in SubprocessOutcomes, stdout \in Outputs :
          lint' = IF o = "completed" /\ stdout.kind = "json"
                    THEN [lint EXCEPT !.st = "returned", !.via = "subprocess",
                                      !.out = lint_result(stdout.msgs)]
                  ELSE [lint EXCEPT !.st = "returned", !.via = "default",
                                    !.out = LintDefault]
    /\ PylintFrame

NextPylint ==
    \/ PylintStart
    \/ PylintApiModern
    \/ PylintApiLegacy
    \/ PylintApiAncient
    \/ PylintParse
    \/ PylintSubprocess

SpecPylint == InitPylint /\ [][NextPylint]_vars

----------------------------------------------------------------------------
(* build_recommendations (recommend/recommender.py)                        *)
(*                                                                         *)
(* MI and cc_avg of a radon file record are in hundredths (quarter units,  *)
(* exact as floats); a score, and the rounded mi and cc_avg of an output   *)
(* record, are in tenths.  A suggestion is modelled by its kind.           *)

MaxRecFiles == 3    \* radon file records handed to build_recommendations

\* round(max(0.0, min(100.0, mi)) - min(40.0, max(0.0, (cc_avg - 5) * 6)), 1)
score_file_uncapped(mi, cc_avg) ==
    LET mi_part == Max(0, Min(10000, mi))
        cc_penalty == Max(0, (cc_avg - 500) * 6)
    IN  RoundTo(mi_part - cc_penalty, 100, 1)

score_file(mi, cc_avg) ==
    LET mi_part == Max(0, Min(10000, mi))
        cc_penalty == Min(4000, Max(0, (cc_avg - 500) * 6))
    IN  RoundTo(mi_part - cc_penalty, 100, 1)

\* max(cc_items, key=lambda i: i.get("cc", 0)): the first item of the largest cc
RECURSIVE worst_last(_)
worst_last(cc_items) ==
    IF Len(cc_items) = 1 THEN cc_items[1]
    ELSE LET w == worst_last(Tail(cc_items))
         IN  IF Head(cc_items).cc > w.cc THEN Head(cc_items) ELSE w

RECURSIVE worst(_)
worst(cc_items) ==
    IF Len(cc_items) = 1 THEN cc_items[1]
    ELSE LET w == worst(Tail(cc_items))
         IN  IF Head(cc_items).cc >= w.cc THEN Head(cc_items) ELSE w

\* the text "MI<65 — split large functions, ..."
MiSuggestion == [kind |-> "mi", name |-> "", line |-> 0, cc |-> 0]

\* the text "High complexity: `name` line-end (CC=cc). Simplify conditions."
CcSuggestion(w) == [kind |-> "cc", name |-> w.name, line |-> w.line, cc |-> w.cc]

\* the suggestions of one file, in the order they are appended
recommend_for_file(f) ==
    LET mi == IF f.has_mi THEN f.mi ELSE 10000
        hot == SelectSeq(f.cc_items, LAMBDA i : i.cc > 10)
    IN  (IF mi < 6500 THEN <<MiSuggestion>> ELSE <<>>)
            \o (IF hot # <<>> THEN <<CcSuggestion(worst(f.cc_items))>> ELSE <<>>)

\* one element of the list comprehension of build_recommendations
rec_file(f) ==
    [path |-> f.path,
     mi |-> RoundTo(IF f.has_mi THEN f.mi ELSE 0, 100, 1),
     cc_avg |-> RoundTo(f.cc_avg, 100, 1),
     score |-> score_file(IF f.has_mi THEN f.mi ELSE 10000, f.cc_avg),
     suggestions |-> recommend_for_file(f),
     cc_items |-> f.cc_items]

\* files.sort(key=lambda r: r["score"]): ascending, equal scores keep their order
RECURSIVE InsertAscBeforeTies(_, _)
InsertAscBeforeTies(r, sorted) ==
    IF sorted = <<>> THEN <<r>>
    ELSE IF Head(sorted).score < r.score
         THEN <<Head(sorted)>> \o InsertAscBeforeTies(r, Tail(sorted))
         ELSE <<r>> \o sorted

RECURSIVE InsertAsc(_, _)
InsertAsc(r, sorted) ==
    IF sorted = <<>> THEN <<r>>
    ELSE IF Head(sorted).score <= r.score
         THEN <<Head(sorted)>> \o InsertAsc(r, Tail(sorted))
         ELSE <<r>> \o sorted

RECURSIVE SortedAsc(_)
SortedAsc(files) ==
    IF files = <<>> THEN <<>>
    ELSE InsertAsc(files[Len(files)], SortedAsc(SubSeq(files, 1, Len(files) - 1)))

\* the project suggestions drawn from the radon summary (no pylint messages)
project_suggestions(rsum) ==
    (IF rsum.mi_warnings > 0 THEN <<"mi">> ELSE <<>>)
        \o (IF rsum.cc_hotspots > 0 THEN <<"cc">> ELSE <<>>)

build_recommendations(analysis) ==
    LET radon_files == analysis.radon.files
        files == [k \in 1..Len(radon_files) |-> rec_file(radon_files[k])]
    IN  [files |-> SortedAsc(files),
         project_suggestions |-> project_suggestions(analysis.radon.summary)]

\* MI, cc_avg and complexity items of the file records that are analysed
Item(name, line, cc) == [name |-> name, line |-> line, cc |-> cc]

FileMetrics ==
    { [has_mi |-> TRUE, mi |-> 6475, cc_avg |-> 0, cc_items |-> <<>>],
      [has_mi |-> TRUE, mi |-> 7075, cc_avg |-> 600, cc_items |-> <<Item("f", 1, 6)>>],
      [has_mi |-> TRUE, mi |-> 13000, cc_avg |-> 500, cc_items |-> <<Item("f", 1, 5)>>],
      [has_mi |-> TRUE, mi |-> -500, cc_avg |-> 2000, cc_items |-> <<Item("f", 1, 20)>>],
      [has_mi |-> TRUE, mi |-> 0, cc_avg |-> 1175,
       cc_items |-> <<Item("f", 1, 11), Item("g", 9, 12), Item("h", 20, 12), Item("k", 31, 12)>>],
      [has_mi |-> TRUE, mi |-> 10000, cc_avg |-> 525,
       cc_items |-> <<Item("f", 1, 10), Item("g", 9, 1), Item("h", 12, 5), Item("k", 18, 5)>>],
      [has_mi |-> TRUE, mi |-> 6500, cc_avg |-> 1150, cc_items |-> <<Item("f", 1, 10), Item("g", 9, 13)>>],
      [has_mi |-> FALSE, mi |-> 0, cc_avg |-> 0, cc_items |-> <<Item("f", 1, 11)>>] }

\* the k-th file discovered has its own path
DiscoveryPath(k) == <<"pkg", "mod", k>>

RadonFileLists ==
    {[k \in 1..Len(ms) |->
        [path |-> DiscoveryPath(k), has_mi |-> ms[k].has_mi, mi |-> ms[k].mi,
         cc_avg |-> ms[k].cc_avg, cc_items |-> ms[k].cc_items]] :
        ms \in UNION {[1..n -> FileMetrics] : n \in 0..MaxRecFiles}}

AnalysisOf(files) ==
    [radon |-> [files |-> files, summary |-> radon_result(files, DefaultConfig).summary],
     pylint |-> [messages |-> <<>>]]

InitRecommend ==
    /\ \E fs \in RadonFileLists :
          rec = [analysis |-> AnalysisOf(fs), st |-> "start",
                 out |-> [files |-> <<>>, project_suggestions |-> <<>>]]
    /\ ScoreIdle
    /\ CompareIdle
    /\ RadonIdle /\ PylintIdle /\ PairIdle /\ RefactorIdle /\ FlowIdle /\ PayloadIdle

Recommend ==
    /\ rec.st = "start"
    /\ rec' = [rec EXCEPT !.st = "built", !.out = build_recommendations(rec.analysis)]
    /\ UNCHANGED <<scoreVars, compareVars, rad, lint, pair, ref, flow, payload>>

NextRecommend == Recommend

SpecRecommend == InitRecommend /\ [][NextRecommend]_vars

----------------------------------------------------------------------------
(* run_pipeline_pair and run_pipeline (pipeline/runner.py), with the report *)
(* writers of reporting/json_report.py                                      *)
(*                                                                         *)
(* Two tasks, "A" for dir_a and "B" for dir_b, are submitted to a          *)
(* ThreadPoolExecutor; every step of a task is one action, so the steps of *)
(* the two tasks and of the caller interleave freely.  The wall clock      *)
(* advances in ticks, TicksPerSecond of them to a second; a report file is *)
(* named by its extension and the second strftime("%Y%m%d_%H%M%S") prints. *)

MaxClock == 2           \* ticks the wall clock advances during a run

TicksPerSecond == 2

max_workers == 2        \* ThreadPoolExecutor(max_workers=2)

Tasks == {"A", "B"}

Exts == {"json", "md", "pdf"}

NoPath == -1            \* no report of that kind written yet

\* datetime.now().strftime("%Y%m%d_%H%M%S"): the time cut to whole seconds
Timestamp(clock) == clock \div TicksPerSecond

Seconds == 0..Timestamp(MaxClock)

\* analysis results of the projects that are analysed
Projects ==
    { ResultOf(<<[has_mi |-> TRUE, mi |-> 90]>>, 0, 0, [count |-> [k \in {} |-> 0], not_int |-> {}], 0),
      ResultOf(<<[has_mi |-> TRUE, mi |-> 60]>>, 1, 1, [count |-> [k \in {} |-> 0], not_int |-> {}], 4) }

\* how run_analysis_with_adk_flow can end: run_radon and run_pylint raise
\* through step_radon and step_pylint, a failing text generation is absorbed
AnalysisOutcomes == {"ok", "run_radon raises", "run_pylint raises"}

NoFile == [writers |-> {}, data |-> None]

InitPair ==
    /\ \E pa \in Projects, pb \in Projects, fpdf \in BOOLEAN :
          pair = [task |-> [t \in Tasks |->
                              [pc |-> "unsubmitted",
                               project |-> IF t = "A" THEN pa ELSE pb,
                               quality_score |-> NoScore,
                               report_paths |-> [e \in Exts |-> NoPath],
                               exc |-> None]],
                  fpdf |-> fpdf,
                  clock |-> 0,
                  reports |-> [e \in Exts |-> [ts \in Seconds |-> NoFile]],
                  main |-> [pc |-> "submit_a", exc |-> None,
                            res_a |-> NoScore, res_b |-> NoScore]]
    /\ ScoreIdle
    /\ CompareIdle
    /\ RadonIdle /\ PylintIdle /\ RecommendIdle /\ RefactorIdle /\ FlowIdle /\ PayloadIdle

PairFrame == UNCHANGED <<scoreVars, compareVars, rad, lint, rec, ref, flow, payload>>

Settled(p, t) == p.task[t].pc \in {"done", "failed"}

Running(p) == {t \in Tasks : p.task[t].pc \notin {"unsubmitted", "queued", "done", "failed"}}

\* what the exit of the with-block waits for: shutdown(wait=True) joins the workers
PoolJoined_nowait(p) == TRUE

PoolJoined(p) == \A t \in Tasks : p.task[t].pc = "unsubmitted" \/ Settled(p, t)

\* the wall clock advances
Tick ==
    /\ pair.clock < MaxClock
    /\ pair' = [pair EXCEPT !.clock = @ + 1]
    /\ PairFrame

\* fa = ex.submit(run_pipeline, dir_a)
SubmitA ==
    /\ pair.main.pc = "submit_a"
    /\ pair' = [pair EXCEPT !.task["A"].pc = "queued", !.main.pc = "submit_b"]
    /\ PairFrame

\* fb = ex.submit(run_pipeline, dir_b)
SubmitB ==
    /\ pair.main.pc = "submit_b"
    /\ pair' = [pair EXCEPT !.task["B"].pc = "queued", !.main.pc = "wait_a"]
    /\ PairFrame

\* a worker thread of the pool takes a queued task
Start(t) ==
    /\ pair.task[t].pc = "queued"
    /\ Cardinality(Running(pair)) < max_workers
    /\ pair' = [pair EXCEPT !.task[t].pc = "analysis"]
    /\ PairFrame

\* result = run_analysis_with_adk_flow(code_dir), and the setdefault calls
Analyse(t) ==
    /\ pair.task[t].pc = "analysis"
    /\ \E o \in AnalysisOutcomes :
          pair' = IF o = "ok"
                    THEN [pair EXCEPT !.task[t].pc = "score"]
                  ELSE [pair EXCEPT !.task[t].pc = "failed", !.task[t].exc = o]
    /\ PairFrame

\* qs = _compute_quality_score(result); result["quality_score"] = qs
AttachScore(t) ==
    /\ pair.task[t].pc = "score"
    /\ pair' = [pair EXCEPT !.task[t].pc = "json",
                            !.task[t].quality_score =
                                _compute_quality_score(pair.task[t].project)]
    /\ PairFrame

\* the file report_{ts}.<ext> of artifacts/reports after task t wrote it
Written(p, t, e) ==
    [p EXCEPT !.reports[e][Timestamp(p.clock)] =
                  [writers |-> @.writers \cup {t}, data |-> t],
              !.task[t].report_paths[e] = Timestamp(p.clock)]

\* json_path = save_json_report(result, reports_dir)
SaveJson(t) ==
    /\ pair.task[t].pc = "json"
    /\ pair' = [Written(pair, t, "json") EXCEPT !.task[t].pc = "md"]
    /\ PairFrame

\* md_path = save_markdown_report(result, reports_dir)
SaveMarkdown(t) ==
    /\ pair.task[t].pc = "md"
    /\ pair' = [Written(pair, t, "md") EXCEPT !.task[t].pc = "pdf"]
    /\ PairFrame

\* pdf_path = save_pdf_report(result, reports_dir); return result.
\* `from fpdf import FPDF` raises without fpdf2, and run_pipeline does not catch
SavePdf(t) ==
    /\ pair.task[t].pc = "pdf"
    /\ pair' = IF pair.fpdf
                  THEN [Written(pair, t, "pdf") EXCEPT !.task[t].pc = "done"]
               ELSE [pair EXCEPT !.task[t].pc = "failed",
                                 !.task[t].exc = "ModuleNotFoundError"]
    /\ PairFrame

\* res_a = fa.result(): blocks until A is settled, re-raises A's exception
ResultA ==
    /\ pair.main.pc = "wait_a"
    /\ Settled(pair, "A")
    /\ pair' = IF pair.task["A"].pc = "done"
                  THEN [pair EXCEPT !.main.pc = "wait_b",
                                    !.main.res_a = pair.task["A"].quality_score]
               ELSE [pair EXCEPT !.main.pc = "exit", !.main.exc = "A"]
    /\ PairFrame

\* res_b = fb.result()
ResultB ==
    /\ pair.main.pc = "wait_b"
    /\ Settled(pair, "B")
    /\ pair' = IF pair.task["B"].pc = "done"
                  THEN [pair EXCEPT !.main.pc = "exit",
                                    !.main.res_b = pair.task["B"].quality_score]
               ELSE [pair EXCEPT !.main.pc = "exit", !.main.exc = "B"]
    /\ PairFrame

\* the with-block ends: ThreadPoolExecutor.__exit__ joins the workers, then
\* the pending exception propagates or `return res_a, res_b` runs
ExitPool ==
    /\ pair.main.pc = "exit"
    /\ PoolJoined(pair)
    /\ pair' = [pair EXCEPT !.main.pc = IF pair.main.exc = None THEN "returned"
                                         ELSE "raised"]
    /\ PairFrame

NextPair ==
    \/ Tick
    \/ SubmitA
    \/ SubmitB
    \/ \E t \in Tasks : Start(t)
    \/ \E t \in Tasks : Analyse(t)
    \/ \E t \in Tasks : AttachScore(t)
    \/ \E t \in Tasks : SaveJson(t)
    \/ \E t \in Tasks : SaveMarkdown(t)
    \/ \E t \in Tasks : SavePdf(t)
    \/ ResultA
    \/ ResultB
    \/ ExitPool

SpecPair == InitPair /\ [][NextPair]_vars

----------------------------------------------------------------------------
(* step_llm_refactor (agents/adk_flow_integration.py)                      *)
(*                                                                         *)
(* A text is a sequence of one-character strings, "\n" ending a line and   *)
(* "bullet" standing for the character U+2022.  Each call of               *)
(* agent.generate is one action; the agent answers it with a text or by    *)
(* raising.  The fixed suggestion texts are abbreviated to their first     *)
(* word.                                                                   *)

MaxRefFiles == 4    \* radon file records handed to step_llm_refactor

llm_top_n == 3      \* ctx["llm_top_n"]

MaxTips == 5        \* bullets[:5]

\* str.splitlines()
RECURSIVE SplitLines(_)
SplitLines(text) ==
    IF text = <<>> THEN <<>>
    ELSE IF \E k \in 1..Len(text) : text[k] = "\n"
         THEN LET k == CHOOSE k \in 1..Len(text) :
                          text[k] = "\n" /\ \A m \in 1..(k - 1) : text[m] # "\n"
              IN  <<SubSeq(text, 1, k - 1)>> \o SplitLines(SubSeq(text, k + 1, Len(text)))
         ELSE <<text>>

\* str.strip(chars)
RECURSIVE LStripOf(_, _)
LStripOf(text, chars) ==
    IF text # <<>> /\ Head(text) \in chars THEN LStripOf(Tail(text), chars) ELSE text

RECURSIVE RStripOf(_, _)
RStripOf(text, chars) ==
    IF text # <<>> /\ text[Len(text)] \in chars
    THEN RStripOf(SubSeq(text, 1, Len(text) - 1), chars)
    ELSE text

StripOf(text, chars) == RStripOf(LStripOf(text, chars), chars)

BulletChars == {"-", "bullet", " "}

\* [line.strip("-* ").strip() for line in response.splitlines() if line.strip()]
bullets(response) ==
    LET lines == SelectSeq(SplitLines(response), LAMBDA line : Strip(line) # <<>>)
    IN  [k \in 1..Len(lines) |-> Strip(StripOf(lines[k], BulletChars))]

\* return bullets[:5] if bullets else [response.strip()]
tips_of(response) ==
    LET bs == bullets(response)
    IN  IF bs # <<>> THEN SubSeq(bs, 1, Min(MaxTips, Len(bs))) ELSE <<Strip(response)>>

\* ["No meaningful refactor; file is already simple. ..."]
SimpleTips == << <<"N", "o">> >>

\* ["Split large functions ...", "Simplify conditional branches ...", "Extract repeated code ..."]
StaticTips == << <<"S", "p", "l", "i", "t">>, <<"S", "i", "m", "p", "l", "i", "f", "y">>,
                 <<"E", "x", "t", "r", "a", "c", "t">> >>

\* ["LLM response could not be retrieved; showing static suggestions."]
FallbackTips_none == <<>>

FallbackTips == << <<"L", "L", "M">> >>

\* sorted(radon_files, key=lambda f: (-cc_avg, mi))[:top_n], by SortedWorst
worst_files_all(files) == SortedWorst(files)

worst_files(files) ==
    LET ranked == SortedWorst(files)
    IN  SubSeq(ranked, 1, Min(llm_top_n, Len(ranked)))

\* if mi > 85.0 and cc_avg < 2.0
IsSimple(f) == f.mi > 8500 /\ f.cc_avg < 200

\* MI and cc_avg of the file records handed to the step
RefMetrics ==
    { [mi |-> 9000, cc_avg |-> 100],
      [mi |-> 8500, cc_avg |-> 100],
      [mi |-> 6000, cc_avg |-> 800],
      [mi |-> 4000, cc_avg |-> 800],
      [mi |-> 5000, cc_avg |-> 1200] }

RefFileLists ==
    {[k \in 1..Len(ms) |-> [path |-> DiscoveryPath(k), mi |-> ms[k].mi, cc_avg |-> ms[k].cc_avg]] :
        ms \in {q \in UNION {[1..n -> RefMetrics] : n \in 0..MaxRefFiles} :
                    \A i, j \in 1..Len(q) : i # j => q[i] # q[j]}}

\* the texts agent.generate returns
Responses ==
    { <<>>,
      <<" ", "\n", " ">>,
      <<"-", " ", "a", "b">>,
      <<"-">>,
      <<"-", " ", "a", "\n", "\n", "bullet", " ", "b", "\n">>,
      <<"a", "\n", "b", "\n", "c", "\n", "d", "\n", "e", "\n", "f">> }

InitRefactor ==
    /\ \E fs \in RefFileLists, ag \in BOOLEAN :
          ref = [files |-> fs, has_generate |-> ag, st |-> "start",
                 worst |-> <<>>, i |-> 1, ideas |-> <<>>, calls |-> <<>>,
                 raised |-> {}, answers |-> <<>>]
    /\ ScoreIdle
    /\ CompareIdle
    /\ RadonIdle /\ PylintIdle /\ RecommendIdle /\ PairIdle /\ FlowIdle /\ PayloadIdle

RefactorFrame == UNCHANGED <<scoreVars, compareVars, rad, lint, rec, pair, flow, payload>>

\* worst_files = sorted(...)[:top_n]
RefactorRank ==
    /\ ref.st = "start"
    /\ ref' = [ref EXCEPT !.st = "loop", !.worst = worst_files(ref.files)]
    /\ RefactorFrame

\* the entry of the dictionary comprehension for the file under way
Idea(tips) ==
    [ref EXCEPT !.ideas = Append(@, [path |-> ref.worst[ref.i].path, tips |-> tips]),
                !.i = @ + 1]

\* get_refactor_ideas returns before the prompt: simple file, or no agent
RefactorWithoutCall ==
    /\ ref.st = "loop"
    /\ ref.i <= Len(ref.worst)
    /\ IsSimple(ref.worst[ref.i]) \/ ~ref.has_generate
    /\ ref' = Idea(IF IsSimple(ref.worst[ref.i]) THEN SimpleTips ELSE StaticTips)
    /\ RefactorFrame

\* response = agent.generate(prompt=prompt) returns a text
GenerateReturns ==
    /\ ref.st = "loop"
    /\ ref.i <= Len(ref.worst)
    /\ ~IsSimple(ref.worst[ref.i]) /\ ref.has_generate
    /\ \E response \in Responses :
          ref' = [Idea(tips_of(response)) EXCEPT
                     !.calls = Append(@, ref.worst[ref.i].path),
                     !.answers = Append(@, response)]
    /\ RefactorFrame

\* agent.generate raises; except Exception substitutes the fallback
GenerateRaises ==
    /\ ref.st = "loop"
    /\ ref.i <= Len(ref.worst)
    /\ ~IsSimple(ref.worst[ref.i]) /\ ref.has_generate
    /\ ref' = [Idea(FallbackTips) EXCEPT
                   !.calls = Append(@, ref.worst[ref.i].path),
                   !.answers = Append(@, <<"raise">>),
                   !.raised = @ \cup {ref.worst[ref.i].path}]
    /\ RefactorFrame

\* ctx["refactor_ideas"] = {...}; return ctx
RefactorReturn ==
    /\ ref.st = "loop"
    /\ ref.i > Len(ref.worst)
    /\ ref' = [ref EXCEPT !.st = "returned"]
    /\ RefactorFrame

NextRefactor ==
    \/ RefactorRank
    \/ RefactorWithoutCall
    \/ GenerateReturns
    \/ GenerateRaises
    \/ RefactorReturn

SpecRefactor == InitRefactor /\ [][NextRefactor]_vars

----------------------------------------------------------------------------
(* run_pipeline and run_analysis_with_adk_flow (pipeline/runner.py,        *)
(* agents/adk_flow_integration.py)                                         *)
(*                                                                         *)
(* A dictionary is a record with the set of its keys and the values under  *)
(* them; the value under an absent key is what the code reads for it.  The *)
(* orchestration flow is built from the four steps and runs them in order  *)
(* over the context; what it does besides is the library's: it returns the *)
(* context with the result, returns a context without it, or raises.       *)
(* log is the sequence of steps, scorings and report writings of the run.  *)

NoRadon ==
    [summary |-> [files |-> 0, mi_warnings |-> 0, cc_hotspots |-> 0], files |-> <<>>]

EmptyDict ==
    [keys |-> {}, files_scanned |-> 0, issues_found |-> 0, radon |-> NoRadon,
     pylint |-> LintDefault, refactor_ideas |-> <<>>, adk_message |-> "",
     quality_score |-> NoScore, enhanced |-> NoScore, report_paths |-> {}]

\* ctx = {"agent": ..., "code_dir": ..., "radon_config": ..., "llm_top_n": 3, "llm_enabled": ...}
Ctx0 ==
    [keys |-> {"agent", "code_dir", "radon_config", "llm_top_n", "llm_enabled"},
     radon |-> NoRadon, pylint |-> LintDefault, refactor_ideas |-> <<>>,
     result |-> EmptyDict]

\* ctx["radon"] = run_radon(code_dir, cfg)
step_radon(ctx, dir) ==
    [ctx EXCEPT !.keys = @ \cup {"radon"},
                !.radon = radon_result([i \in 1..Len(dir) |-> analyze_file(dir[i])],
                                       DefaultConfig)]

\* ctx["pylint"] = run_pylint(code_dir)
step_pylint(ctx, msgs) ==
    [ctx EXCEPT !.keys = @ \cup {"pylint"}, !.pylint = lint_result(msgs)]

\* get_refactor_ideas(file_data) with the agent's answer to the prompt
get_refactor_ideas(f, has_generate, answer) ==
    IF IsSimple(f) THEN SimpleTips
    ELSE IF ~has_generate THEN StaticTips
    ELSE IF answer.raises THEN FallbackTips
    ELSE tips_of(answer.text)

\* ctx["refactor_ideas"] = {f["path"]: get_refactor_ideas(f) for f in worst_files}
step_llm_refactor(ctx, has_generate, answer) ==
    LET ranked == worst_files(ctx.radon.files)
    IN  [ctx EXCEPT !.keys = @ \cup {"refactor_ideas"},
                    !.refactor_ideas =
                        [i \in 1..Len(ranked) |->
                            [path |-> ranked[i].path,
                             tips |-> get_refactor_ideas(ranked[i], has_generate, answer)]]]

\* ctx["result"] = {...}
step_merge_lint_only(ctx) ==
    [ctx EXCEPT !.keys = @ \cup {"result"},
                !.result =
                    [EmptyDict EXCEPT
                        !.keys = {"files_scanned", "issues_found", "summary", "adk_message",
                                  "pylint", "radon", "refactor_ideas"},
                        !.files_scanned = ctx.radon.summary.files,
                        !.issues_found = ctx.pylint.summary.total,
                        !.adk_message = "Workflow completed successfully",
                        !.pylint = ctx.pylint,
                        !.radon = ctx.radon,
                        !.refactor_ideas = ctx.refactor_ideas]]

step_merge(ctx) ==
    [ctx EXCEPT !.keys = @ \cup {"result"},
                !.result =
                    [EmptyDict EXCEPT
                        !.keys = {"files_scanned", "issues_found", "summary", "adk_message",
                                  "pylint", "radon", "refactor_ideas"},
                        !.files_scanned = ctx.radon.summary.files,
                        !.issues_found = ctx.pylint.summary.total
                                            + ctx.radon.summary.mi_warnings
                                            + ctx.radon.summary.cc_hotspots,
                        !.adk_message = "Workflow completed successfully",
                        !.pylint = ctx.pylint,
                        !.radon = ctx.radon,
                        !.refactor_ideas = ctx.refactor_ideas]]

\* final_ctx itself, taken for the result by final_ctx.get("result", final_ctx)
CtxAsDict(ctx) ==
    [EmptyDict EXCEPT !.keys = ctx.keys \ {"result"},
                      !.radon = ctx.radon,
                      !.pylint = ctx.pylint,
                      !.refactor_ideas = ctx.refactor_ideas]

\* result.setdefault("radon", ...); .setdefault("pylint", ...); .setdefault("recommendations", {})
defaults(res) ==
    [res EXCEPT !.keys = @ \cup {"radon", "pylint", "recommendations"},
                !.radon = IF "radon" \in res.keys THEN @ ELSE NoRadon,
                !.pylint = IF "pylint" \in res.keys THEN @ ELSE LintDefault]

\* the characters of the by_type keys run_pylint produces
KeyChars ==
    [convention |-> LongName.C, refactor |-> LongName.R, warning |-> LongName.W,
     error |-> LongName.E, fatal |-> LongName.F, info |-> kInfo, unknown |-> kUnknown]

\* the result as _compute_quality_score reads it: MI in whole units (the
\* files of FlowEntries have a whole MI), by_type keyed by the characters
ScoreView(res) ==
    LET fl == res.radon.files
        bt == res.pylint.summary.by_type
    IN  [radon |-> [files |-> [i \in 1..Len(fl) |->
                                  [has_mi |-> fl[i].has_mi, mi |-> fl[i].mi \div 100]],
                    summary |-> res.radon.summary],
         pylint |-> [by_type |->
                        [count |-> [k \in {KeyChars[t] : t \in DOMAIN bt} |->
                                       bt[CHOOSE t \in DOMAIN bt : KeyChars[t] = k]],
                         not_int |-> {}],
                     total |-> res.pylint.summary.total]]

\* result["enhanced_metrics"] = {"quality_score": qs}; result["quality_score"] = qs
attach_top_only(res, qs) ==
    [res EXCEPT !.keys = @ \cup {"quality_score"}, !.quality_score = qs]

attach(res, qs) ==
    [res EXCEPT !.keys = @ \cup {"enhanced_metrics", "quality_score"},
                !.enhanced = qs,
                !.quality_score = qs]

\* json.dump accepts the dictionary: no agent object, no Path in it
Serialisable(res) == res.keys \cap {"agent", "code_dir"} = {}

\* the scores a written report shows
Shown(kind, res) ==
    IF kind = "json" THEN {res.quality_score, res.enhanced} ELSE {res.enhanced}

FlowEntries ==
    [a |-> [path |-> <<"pkg", "a.py">>, ok |-> TRUE, mi |-> 6000, cc |-> <<12, 3>>],
     b |-> [path |-> <<"pkg", "b.py">>, ok |-> TRUE, mi |-> 9000, cc |-> <<1>>],
     bad |-> [path |-> <<"bad.py">>, ok |-> FALSE, mi |-> 0, cc |-> <<>>]]

FlowDirectories ==
    { <<>>, <<FlowEntries.a>>, <<FlowEntries.a, FlowEntries.b>>,
      <<FlowEntries.b, FlowEntries.bad>> }

\* how run_pylint ends: with these messages, or raising
FlowLint ==
    { [raises |-> FALSE, msgs |-> <<>>],
      [raises |-> FALSE, msgs |-> << [type |-> "warning", category |-> ""],
                                     [type |-> "error", category |-> ""] >>],
      [raises |-> FALSE, msgs |-> << [type |-> "convention", category |-> ""],
                                     [type |-> "", category |-> ""] >>],
      [raises |-> TRUE, msgs |-> <<>>] }

\* how agent.generate ends
Answers ==
    { [raises |-> TRUE, text |-> <<>>],
      [raises |-> FALSE, text |-> <<"-", " ", "a", "b">>] }

\* what the library's flow does after running its steps
FlowEnds == {"returns_result", "returns_context", "raises"}

StepNames == <<"radon", "pylint", "llm_refactor", "merge">>

ReportKinds == <<"json", "markdown", "pdf">>

InitFlow ==
    /\ \E ua \in BOOLEAN, ok \in BOOLEAN, lib \in FlowEnds, dir \in FlowDirectories,
          lo \in FlowLint, ag \in BOOLEAN, ans \in Answers, pdf \in BOOLEAN :
          flow = [USE_ADK |-> ua, ADK_OK |-> ok, lib |-> lib, dir |-> dir, lint |-> lo,
                  has_generate |-> ag, answer |-> ans, fpdf |-> pdf,
                  pc |-> "start", next |-> 1, log |-> <<>>, ctx |-> Ctx0,
                  res |-> EmptyDict, reports |-> <<>>]
    /\ ScoreIdle
    /\ CompareIdle
    /\ RadonIdle /\ PylintIdle /\ RecommendIdle /\ PairIdle /\ RefactorIdle /\ PayloadIdle

FlowFrame == UNCHANGED <<scoreVars, compareVars, rad, lint, rec, pair, ref, payload>>

\* if USE_ADK and ADK_OK and SingleFlow is not None
Enter ==
    /\ flow.pc = "start"
    /\ flow' = [flow EXCEPT !.pc = IF flow.USE_ADK /\ flow.ADK_OK THEN "adk" ELSE "manual"]
    /\ FlowFrame

\* a pass over the steps is under way, the flow's or the manual one
InPass == flow.pc \in {"adk", "manual"}

\* run_radon returns: analyze_file raises for none of the files
CanRadon == \A i \in 1..Len(flow.dir) : flow.dir[i].ok

Stepped(ctx) ==
    [flow EXCEPT !.ctx = ctx, !.next = @ + 1, !.log = Append(@, StepNames[flow.next])]

StepRadon ==
    /\ InPass /\ flow.next = 1 /\ CanRadon
    /\ flow' = Stepped(step_radon(flow.ctx, flow.dir))
    /\ FlowFrame

StepPylint ==
    /\ InPass /\ flow.next = 2 /\ ~flow.lint.raises
    /\ flow' = Stepped(step_pylint(flow.ctx, flow.lint.msgs))
    /\ FlowFrame

StepLlmRefactor ==
    /\ InPass /\ flow.next = 3
    /\ flow' = Stepped(step_llm_refactor(flow.ctx, flow.has_generate, flow.answer))
    /\ FlowFrame

StepMerge ==
    /\ InPass /\ flow.next = 4
    /\ flow' = Stepped(step_merge(flow.ctx))
    /\ FlowFrame

\* run_radon or run_pylint raises: inside the flow the except clause falls
\* through to the manual pipeline, in the manual pipeline it leaves the run
StepRaises ==
    /\ InPass
    /\ (flow.next = 1 /\ ~CanRadon) \/ (flow.next = 2 /\ flow.lint.raises)
    /\ flow' = IF flow.pc = "adk"
               THEN [flow EXCEPT !.pc = "manual", !.next = 1]
               ELSE [flow EXCEPT !.pc = "raised"]
    /\ FlowFrame

\* building or running the flow raises: except Exception, then the manual pipeline
FlowRaises ==
    /\ flow.pc = "adk"
    /\ flow.lib = "raises"
    /\ flow' = [flow EXCEPT !.pc = "manual", !.next = 1]
    /\ FlowFrame

\* res = final_ctx.get("result", final_ctx); res["adk_message"] = ...; return res
FlowReturns ==
    /\ flow.pc = "adk"
    /\ flow.next = 5
    /\ flow.lib # "raises"
    /\ LET res == IF flow.lib = "returns_result" THEN flow.ctx.result
                  ELSE CtxAsDict(flow.ctx)
       IN  flow' = [flow EXCEPT
                       !.pc = "analysed",
                       !.res = [res EXCEPT !.keys = @ \cup {"adk_message"},
                                           !.adk_message = "Google-ADK SingleFlow active"]]
    /\ FlowFrame

\* res = ctx["result"]; the message tells why the manual pipeline ran
ManualReturns ==
    /\ flow.pc = "manual"
    /\ flow.next = 5
    /\ flow' = [flow EXCEPT
                   !.pc = "analysed",
                   !.res = [flow.ctx.result EXCEPT
                               !.adk_message =
                                   IF flow.USE_ADK /\ ~flow.ADK_OK
                                   THEN "Google-ADK not found; ran manual flow"
                                   ELSE IF ~flow.USE_ADK
                                   THEN "ADK disabled; ran manual flow"
                                   ELSE @]]
    /\ FlowFrame

\* the defaults, qs = _compute_quality_score(result), and the two assignments
ScoreResult ==
    /\ flow.pc = "analysed"
    /\ LET res == defaults(flow.res)
       IN  flow' = [flow EXCEPT
                       !.pc = "scored",
                       !.res = attach(res, _compute_quality_score(ScoreView(res))),
                       !.log = Append(@, "score")]
    /\ FlowFrame

\* result.setdefault("adk_message", f"Agent: {label}")
EnsureMessage ==
    /\ flow.pc = "scored"
    /\ flow' = [flow EXCEPT
                   !.pc = "reporting",
                   !.res = [flow.res EXCEPT
                               !.keys = @ \cup {"adk_message"},
                               !.adk_message = IF "adk_message" \in flow.res.keys
                                               THEN @ ELSE "Agent"]]
    /\ FlowFrame

Reported(kind) ==
    [flow EXCEPT !.reports = Append(@, [kind |-> kind, shown |-> Shown(kind, flow.res)]),
                 !.log = Append(@, kind)]

WriteJson ==
    /\ flow.pc = "reporting"
    /\ Len(flow.reports) = 0
    /\ Serialisable(flow.res)
    /\ flow' = Reported("json")
    /\ FlowFrame

WriteMarkdown ==
    /\ flow.pc = "reporting"
    /\ Len(flow.reports) = 1
    /\ flow' = Reported("markdown")
    /\ FlowFrame

WritePdf ==
    /\ flow.pc = "reporting"
    /\ Len(flow.reports) = 2
    /\ flow.fpdf
    /\ flow' = Reported("pdf")
    /\ FlowFrame

\* json.dump raises TypeError, or save_pdf_report's import of fpdf fails
WriterRaises ==
    /\ flow.pc = "reporting"
    /\ \/ Len(flow.reports) = 0 /\ ~Serialisable(flow.res)
       \/ Len(flow.reports) = 2 /\ ~flow.fpdf
    /\ flow' = [flow EXCEPT !.pc = "raised"]
    /\ FlowFrame

\* result["report_paths"] = {...}; return result
ReturnResult ==
    /\ flow.pc = "reporting"
    /\ Len(flow.reports) = 3
    /\ flow' = [flow EXCEPT
                   !.pc = "done",
                   !.res = [flow.res EXCEPT
                               !.keys = @ \cup {"report_paths"},
                               !.report_paths = {"json", "markdown", "pdf"}]]
    /\ FlowFrame

NextFlow ==
    \/ Enter
    \/ StepRadon
    \/ StepPylint
    \/ StepLlmRefactor
    \/ StepMerge
    \/ StepRaises
    \/ FlowRaises
    \/ FlowReturns
    \/ ManualReturns
    \/ ScoreResult
    \/ EnsureMessage
    \/ WriteJson
    \/ WriteMarkdown
    \/ WritePdf
    \/ WriterRaises
    \/ ReturnResult

SpecFlow == InitFlow /\ [][NextFlow]_vars

----------------------------------------------------------------------------
(* Reference values of the scoring claims, computed from the description   *)
(* of the formula and not through the operators above                      *)

Abs(x) == IF x >= 0 THEN x ELSE -x

\* weight, in tenths, that the description gives to each key of the inputs
RefWeight(k) ==
    CASE k \in {kC, kConvention} -> 6
      [] k \in {kR, kRefactor} -> 8
      [] k \in {kW, kWarning, kWarningPadded} -> 10
      [] k \in {kE, kError} -> 30
      [] k \in {kF, kFatal} -> 80
      [] OTHER -> 0

RefLint(bt) ==
    SumOver([k \in DOMAIN bt.count |-> RefWeight(k) * bt.count[k]],
            DOMAIN bt.count \ bt.not_int)

\* the file records that carry an MI
KnownMI(fl) == {i \in 1..Len(fl) : fl[i].has_mi}

AllKnown(res) == KnownMI(res.radon.files) = 1..Len(res.radon.files)

\* number of file records, at least 1
RefFiles(res) == Max(1, Len(res.radon.files))

\* density penalty times RefFiles(res)
RefDensityTimesFiles(res) ==
    LET n == RefFiles(res)
        t == res.pylint.total
    IN  IF t <= 3 * n THEN 0 ELSE 2 * (t - 3 * n)

\* base - (lint + structural + density), times 10 * RefFiles(res)
RefRawScaled(res) ==
    LET fl == res.radon.files
        n == RefFiles(res)
        base10n == IF Len(fl) = 0 THEN 500
                   ELSE 10 * SumOver([i \in 1..Len(fl) |-> fl[i].mi], 1..Len(fl))
    IN  base10n
        - n * (RefLint(res.pylint.by_type)
               + 20 * res.radon.summary.mi_warnings
               + 15 * res.radon.summary.cc_hotspots)
        - 10 * RefDensityTimesFiles(res)

\* the integers nearest to num/den (two of them when num/den ends in .5)
Nearest(num, den) ==
    {r \in {num \div den, (num \div den) + 1} : 2 * Abs(num - r * den) <= den}

RefClamp(x) == IF x < 0 THEN 0 ELSE IF x > 100 THEN 100 ELSE x

----------------------------------------------------------------------------
(* Claims about _compute_quality_score *)

\* C1: the score returned for any result is an integer between 0 and 100.
C1_ScoreBounded == pc = "scored" => score \in 0..100

\* a result whose rounded raw value is negative has been scored
C1_Witness ==
    /\ pc = "scored"
    /\ Round(raw(result).num, raw(result).den) < 0
    /\ score = 0

OneFile(mi, mw, ch, bt, t) == ResultOf(<<[has_mi |-> TRUE, mi |-> mi]>>, mw, ch, bt, t)

NoFindings == [count |-> <<>>, not_int |-> {}]

EmptyProject == ResultOf(<<>>, 0, 0, NoFindings, 0)

\* C2: when every file has an MI, the score is the raw value
\* base - (lint + structural + density) rounded to a nearest integer and then
\* clamped to [0,100]; one file with MI 90 and no findings scores 90, the
\* empty project scores 50.
C2_ScoreIsReference ==
    (pc = "scored" /\ AllKnown(result)) =>
        /\ score \in {RefClamp(r) :
                         r \in Nearest(RefRawScaled(result), 10 * RefFiles(result))}
        /\ (result = OneFile(90, 0, 0, NoFindings, 0) => score = 90)
        /\ (result = EmptyProject => score = 50)

\* the empty project has been scored
C2_Witness ==
    /\ pc = "scored"
    /\ result = EmptyProject
    /\ score = 50

C3_Scenario == OneFile(60, 1, 1, [count |-> (kWarning :> 2), not_int |-> {}], 2)

\* C3: one file with MI 60, one MI warning, one hotspot, {warning: 2} and
\* total 2 has the raw value 54.5 and scores 55.
C3_HalfRoundsUp ==
    (pc = "scored" /\ result = C3_Scenario) =>
        /\ 2 * raw(result).num = 109 * raw(result).den
        /\ score = 55

\* C4: counting one more finding under a severity, all else equal, never
\* raises the score.
C4_Monotone == [][(pc = "scored" /\ pc' = "scored") => score' <= score]_vars

\* one more finding has been counted and the score went down
C4_Witness ==
    /\ pc = "scored"
    /\ prev # NoScore
    /\ score < prev

\* C5: the base is the mean MI of the file records that carry an MI, and 50
\* when none does.
C5_BaseOverKnownMI ==
    pc = "scored" =>
        LET fl == result.radon.files
            known == KnownMI(fl)
            base == avg_mi(fl)
        IN  IF known = {}
            THEN base.num = 50 * base.den
            ELSE base.num * Cardinality(known)
                 = base.den * SumOver([i \in 1..Len(fl) |-> fl[i].mi], known)

\* what the total contributes to the raw value: raw with total 0 minus raw
DensityUsed(res) ==
    LET r0 == raw([res EXCEPT !.pylint.total = 0])
        r == raw(res)
    IN  [num |-> r0.num * r.den - r.num * r0.den, den |-> r0.den * r.den]

\* C6: the density penalty is 0 when total / max(1, files) <= 3 and
\* (total / max(1, files) - 3) * 2 otherwise; with one file, total 3 gives 0
\* and total 4 gives 2.
C6_DensityPenalty ==
    pc = "scored" =>
        LET d == DensityUsed(result)
        IN  /\ d.num * RefFiles(result) = RefDensityTimesFiles(result) * d.den
            /\ (Len(result.radon.files) = 1 /\ result.pylint.total = 3) => d.num = 0
            /\ (Len(result.radon.files) = 1 /\ result.pylint.total = 4)
                   => d.num = 2 * d.den

\* two files with 7 messages have been scored: 3.5 per file, penalty 1
C6_Witness ==
    /\ pc = "scored"
    /\ Len(result.radon.files) = 2
    /\ result.pylint.total = 7
    /\ DensityUsed(result).num = DensityUsed(result).den

WithoutKey(res, k) ==
    [res EXCEPT !.pylint.by_type.count =
        [x \in (DOMAIN res.pylint.by_type.count) \ {k} |-> res.pylint.by_type.count[x]]]

\* C7: keys are matched after trimming and lower-casing, the short and the
\* long name of a severity add to the same bucket, and a key that names no
\* severity changes the score by zero.
C7_KeyNormalisation ==
    pc = "scored" =>
        /\ pylint_penalty(result.pylint.by_type) = RefLint(result.pylint.by_type)
        /\ \A k \in DOMAIN result.pylint.by_type.count :
               RefWeight(k) = 0 => _compute_quality_score(WithoutKey(result, k)) = score

\* a result with findings under "W" and under " Warning " has been scored
C7_Witness ==
    /\ pc = "scored"
    /\ DOMAIN result.pylint.by_type.count = {kW, kWarningPadded}
    /\ result.pylint.by_type.count[kW] = 1
    /\ result.pylint.by_type.count[kWarningPadded] = 2
    /\ _pylint_counts(result.pylint.by_type)["W"] = 3

----------------------------------------------------------------------------
(* Claims about compare_results *)

MetricNames ==
    <<"quality_score", "issues_found", "files_scanned", "pylint_total", "mi_avg", "cc_avg">>

HigherIsBetter == {"quality_score", "mi_avg"}

\* C8: in each of the six rows the winner is tie when the values are equal,
\* otherwise the larger side for quality_score and mi_avg and the smaller side
\* for the four other metrics; quality_score 80 against 65 gives delta -15
\* and winner A.
C8_Winner ==
    cpc = "compared" =>
        /\ Len(cmp.metrics) = 6
        /\ \A i \in 1..6 :
              LET r == cmp.metrics[i]
              IN  /\ r.metric = MetricNames[i]
                  /\ r.A = r.B => r.better = "="
                  /\ (r.A > r.B /\ r.metric \in HigherIsBetter) => r.better = "A"
                  /\ (r.A < r.B /\ r.metric \in HigherIsBetter) => r.better = "B"
                  /\ (r.A > r.B /\ r.metric \notin HigherIsBetter) => r.better = "B"
                  /\ (r.A < r.B /\ r.metric \notin HigherIsBetter) => r.better = "A"
        /\ (a.quality_score = 80 /\ b.quality_score = 65) =>
              /\ cmp.metrics[1].delta = -1500
              /\ cmp.metrics[1].better = "A"

\* 80 against 65 has been compared, and B has the higher mean MI
C8_Witness ==
    /\ cpc = "compared"
    /\ a.quality_score = 80
    /\ b.quality_score = 65
    /\ cmp.metrics[1].better = "A"
    /\ cmp.metrics[5].better = "B"
    /\ cmp.metrics[6].better = "="

Flip(w) == IF w = "A" THEN "B" ELSE IF w = "B" THEN "A" ELSE w

\* C9: comparing (B, A) negates every delta of comparing (A, B), turns a
\* winner A into B and B into A, and keeps a tie.
C9_Symmetry ==
    cpc = "compared" =>
        LET rev == compare_results(b, a)
        IN  \A i \in 1..Len(cmp.metrics) :
               /\ rev.metrics[i].delta = -cmp.metrics[i].delta
               /\ rev.metrics[i].better = Flip(cmp.metrics[i].better)

\* a comparison with a winner A, a winner B and a tie among its rows
C9_Witness ==
    /\ cpc = "compared"
    /\ \E i, j, k \in 1..6 :
          /\ cmp.metrics[i].better = "A" /\ cmp.metrics[i].delta # 0
          /\ cmp.metrics[j].better = "B"
          /\ cmp.metrics[k].better = "="

\* stable sort by descending cc_avg, then ascending mi
RECURSIVE RefInsert(_, _)
RefInsert(f, sorted) ==
    IF sorted = <<>> THEN <<f>>
    ELSE LET h == Head(sorted)
         IN  IF h.cc_avg > f.cc_avg \/ (h.cc_avg = f.cc_avg /\ h.mi <= f.mi)
             THEN <<h>> \o RefInsert(f, Tail(sorted))
             ELSE <<f>> \o sorted

RECURSIVE RefRank(_)
RefRank(files) ==
    IF files = <<>> THEN <<>>
    ELSE RefInsert(files[Len(files)], RefRank(SubSeq(files, 1, Len(files) - 1)))

RefTop(res) ==
    LET ranked == RefRank(res.files)
        top == SubSeq(ranked, 1, Min(5, Len(ranked)))
    IN  [i \in 1..Len(top) |-> PathName(top[i].path)]

Listed(side) == [i \in 1..Len(side) |-> side[i].file]

\* C10: top_hotspots of each side lists the first 5 files in the order
\* descending cc_avg, ties by ascending MI.
C10_TopHotspotsOrder ==
    cpc = "compared" =>
        /\ Listed(cmp.top_hotspots.A) = RefTop(a)
        /\ Listed(cmp.top_hotspots.B) = RefTop(b)

\* C11: compare_results returns a comparison only for two results that have
\* every required field; with a field missing it fails instead of building
\* rows from default values.
C11_FailsOnMissingField ==
    cpc = "compared" => (a.present = AllKeys /\ b.present = AllKeys)

\* the entries of a directory that analyze_file can read and parse, in order
Analysable(d) == SelectSeq(d, LAMBDA e : e.ok)

\* C15: a file of the directory whose analysis fails does not make run_radon
\* raise; run_radon returns, and the returned file list holds exactly the
\* other files of the directory (the summary counting only those).
C15_RadonToleratesBadFile ==
    /\ rad.st # "raised"
    /\ rad.st = "returned" =>
          /\ [k \in 1..Len(rad.out.files) |-> rad.out.files[k].path]
                = [k \in 1..Len(Analysable(rad.dir)) |-> Analysable(rad.dir)[k].path]
          /\ rad.out.summary.files = Len(Analysable(rad.dir))

\* C18: in the summary run_radon returns, mi_warnings is the number of file
\* records whose MI is strictly below the maintainability threshold (a record
\* without MI counting as 100), cc_hotspots the number of complexity items
\* strictly above the complexity threshold, files the number of records.
C18_RadonSummary ==
    rad.st = "returned" =>
        LET fs == rad.out.files
            mt == rad.config.maintainability_threshold
            ct == rad.config.complexity_threshold
            Items == UNION {{<<k, n>> : n \in 1..Len(fs[k].cc_items)} : k \in 1..Len(fs)}
        IN  /\ rad.out.summary.mi_warnings
                 = Cardinality({k \in 1..Len(fs) :
                                  (fs[k].has_mi /\ fs[k].mi < 100 * mt)
                                  \/ (~fs[k].has_mi /\ 100 < mt)})
            /\ rad.out.summary.cc_hotspots
                 = Cardinality({it \in Items : fs[it[1]].cc_items[it[2]].cc > ct})
            /\ rad.out.summary.files = Len(fs)

\* a returned summary over a file exactly at MI 65 (not counted), a file just
\* below it (counted), an item exactly at 10 (not counted) and items above
C18_Witness ==
    /\ rad.st = "returned"
    /\ rad.config = DefaultConfig
    /\ \E k \in 1..Len(rad.out.files) :
          /\ rad.out.files[k].mi = 6500
          /\ \E n \in 1..Len(rad.out.files[k].cc_items) : rad.out.files[k].cc_items[n].cc = 10
    /\ \E k \in 1..Len(rad.out.files) : rad.out.files[k].mi = 6475
    /\ rad.out.summary.mi_warnings = 1
    /\ rad.out.summary.cc_hotspots = 3

\* C16: run_pylint never raises, and a run in which neither the API nor the
\* subprocess produced a parseable output returns total 0, an empty by-type
\* mapping and no messages.
C16_PylintNeverRaises ==
    /\ lint.st # "raised"
    /\ (lint.st = "returned" /\ lint.via = "default") => lint.out = LintDefault

\* C17: every key of the by-type mapping run_pylint returns is one of
\* convention, refactor, warning, error, fatal.
C17_OnlyKnownSeverities ==
    lint.st = "returned" => DOMAIN lint.out.summary.by_type \subseteq Severities

----------------------------------------------------------------------------
(* Claims about the recommender *)

\* clamp(MI, 0, 100) - min(40, max(0, (average_complexity - 5) * 6)), in hundredths
RefClampMI(mi) == IF mi < 0 THEN 0 ELSE IF mi > 10000 THEN 10000 ELSE mi

RefFileScore(mi, cc_avg) ==
    RefClampMI(mi)
        - (IF cc_avg <= 500 THEN 0
           ELSE IF (cc_avg - 500) * 6 > 4000 THEN 4000 ELSE (cc_avg - 500) * 6)

\* the radon record an output record was built from
InputOf(r) ==
    CHOOSE f \in {rec.analysis.radon.files[k] : k \in 1..Len(rec.analysis.radon.files)} :
        f.path = r.path

\* position of a path in the input
InputPos(p) ==
    CHOOSE k \in 1..Len(rec.analysis.radon.files) : rec.analysis.radon.files[k].path = p

\* C19: the score of a file with an MI is clamp(MI, 0, 100) minus the
\* complexity penalty min(40, max(0, (cc_avg - 5) * 6)), to a nearest tenth;
\* the penalty is 0 for cc_avg <= 5, and the score lies in [-40, 100].
C19_FileScore ==
    rec.st = "built" =>
        \A k \in 1..Len(rec.out.files) :
            LET r == rec.out.files[k]
                f == InputOf(r)
            IN  f.has_mi =>
                  /\ 2 * Abs(10 * r.score - RefFileScore(f.mi, f.cc_avg)) <= 10
                  /\ r.score \in -400..1000
                  /\ f.cc_avg <= 500 => 2 * Abs(10 * r.score - RefClampMI(f.mi)) <= 10

\* a file of MI below 0 and average complexity 20 has been scored -40.0, and
\* a file of MI 130 and average complexity 5 has been scored 100.0
C19_Witness ==
    /\ rec.st = "built"
    /\ \E k \in 1..Len(rec.out.files) :
          /\ InputOf(rec.out.files[k]).mi < 0
          /\ InputOf(rec.out.files[k]).cc_avg = 2000
          /\ rec.out.files[k].score = -400
    /\ \E k \in 1..Len(rec.out.files) :
          /\ InputOf(rec.out.files[k]).mi = 13000
          /\ rec.out.files[k].score = 1000

\* C20: the files build_recommendations returns are the input files, each
\* once, in non-decreasing order of score, files of equal score in the order
\* of the input.
C20_StableAscending ==
    rec.st = "built" =>
        LET out == rec.out.files
            inp == rec.analysis.radon.files
        IN  /\ Len(out) = Len(inp)
            /\ {out[k].path : k \in 1..Len(out)} = {inp[k].path : k \in 1..Len(inp)}
            /\ \A i, j \in 1..Len(out) :
                  i < j => /\ out[i].path # out[j].path
                           /\ out[i].score <= out[j].score
                           /\ out[i].score = out[j].score
                                 => InputPos(out[i].path) < InputPos(out[j].path)

\* three files were ranked: the first discovered has the highest score and
\* the other two have the same score
C20_Witness ==
    /\ rec.st = "built"
    /\ Len(rec.out.files) = 3
    /\ rec.out.files[3].path = DiscoveryPath(1)
    /\ rec.out.files[1].score = rec.out.files[2].score
    /\ rec.out.files[2].score < rec.out.files[3].score
    /\ rec.out.files[1].path = DiscoveryPath(2)

----------------------------------------------------------------------------
(* Claims about run_pipeline_pair and run_pipeline *)

\* C12: at most 2 tasks run at a time; run_pipeline_pair ends only when both
\* analyses have settled; it returns the pair of their results only if both
\* succeeded, and raises the failure of a failed analysis otherwise.
C12_JoinAfterBothSettled ==
    /\ Cardinality(Running(pair)) <= 2
    /\ pair.main.pc \in {"returned", "raised"} =>
          \A t \in Tasks : Settled(pair, t)
    /\ pair.main.pc = "returned" =>
          /\ \A t \in Tasks : pair.task[t].pc = "done"
          /\ pair.main.res_a = pair.task["A"].quality_score
          /\ pair.main.res_b = pair.task["B"].quality_score
    /\ pair.main.pc = "raised" =>
          /\ pair.main.exc \in Tasks
          /\ pair.task[pair.main.exc].pc = "failed"
    /\ (pair.main.pc \in {"returned", "raised"}
            /\ \E t \in Tasks : pair.task[t].pc = "failed")
          => pair.main.pc = "raised"

\* the analysis of dir_a failed, the one of dir_b completed with its three
\* reports, and run_pipeline_pair has raised A's failure
C12_Witness ==
    /\ pair.main.pc = "raised"
    /\ pair.main.exc = "A"
    /\ pair.task["A"].pc = "failed"
    /\ pair.task["B"].pc = "done"
    /\ pair.task["B"].report_paths["pdf"] # NoPath

\* C13: no report file is written by both analyses, and the report paths of
\* a finished analysis name files that hold that analysis's own data.
C13_ReportFilesDistinct ==
    /\ \A e \in Exts, ts \in Seconds : Cardinality(pair.reports[e][ts].writers) <= 1
    /\ \A t \in Tasks :
          pair.task[t].pc = "done" =>
              \A e \in Exts : pair.reports[e][pair.task[t].report_paths[e]].data = t

\* C14: run_pipeline never ends without a score: it does not raise, and the
\* result it returns carries a quality_score between 0 and 100.
C14_AlwaysAScore ==
    \A t \in Tasks :
        /\ pair.task[t].pc # "failed"
        /\ pair.task[t].pc = "done" => pair.task[t].quality_score \in 0..100

\* C21: the suggestions of a file hold the MI suggestion exactly when its MI
\* is below 65, and exactly one complexity suggestion exactly when an item
\* has complexity above 10; that suggestion names an item of the highest
\* complexity, and no item before it in the sequence has that complexity.
C21_FileSuggestions ==
    rec.st = "built" =>
        \A k \in 1..Len(rec.out.files) :
            LET r == rec.out.files[k]
                f == InputOf(r)
                items == f.cc_items
                sg == r.suggestions
                Mi == {n \in 1..Len(sg) : sg[n].kind = "mi"}
                Cc == {n \in 1..Len(sg) : sg[n].kind = "cc"}
            IN  /\ Cardinality(Mi) = (IF f.has_mi /\ f.mi < 6500 THEN 1 ELSE 0)
                /\ Cardinality(Cc) = (IF \E n \in 1..Len(items) : items[n].cc > 10 THEN 1 ELSE 0)
                /\ Mi \cup Cc = 1..Len(sg)
                /\ \A c \in Cc :
                      \E n \in 1..Len(items) :
                          /\ sg[c].name = items[n].name /\ sg[c].line = items[n].line
                          /\ sg[c].cc = items[n].cc
                          /\ \A m \in 1..Len(items) : items[m].cc <= items[n].cc
                          /\ \A m \in 1..(n - 1) : items[m].cc < items[n].cc

\* a file of MI 0 whose items g, h and k share the highest complexity 12 got
\* both suggestions, the complexity one naming g
C21_Witness ==
    /\ rec.st = "built"
    /\ \E k \in 1..Len(rec.out.files) :
          /\ InputOf(rec.out.files[k]).cc_avg = 1175
          /\ Len(rec.out.files[k].suggestions) = 2
          /\ rec.out.files[k].suggestions[1].kind = "mi"
          /\ rec.out.files[k].suggestions[2].name = "g"

----------------------------------------------------------------------------
(* Claims about step_llm_refactor *)

\* the tips stored for a path
TipsFor(p) ==
    (CHOOSE e \in {ref.ideas[k] : k \in 1..Len(ref.ideas)} : e.path = p).tips

\* the fixed list substituted for a failed generation
RefFallback == << <<"L", "L", "M">> >>

\* C22: when agent.generate raised for a selected file the step still
\* returns, that file's entry is the fallback list, and every other selected
\* file has its own entry, the one computed from the answer to its own call.
C22_GenerationFailureIsolated ==
    ref.st = "returned" =>
        /\ [k \in 1..Len(ref.ideas) |-> ref.ideas[k].path]
              = [k \in 1..Len(ref.worst) |-> ref.worst[k].path]
        /\ \A c \in 1..Len(ref.calls) :
              IF ref.calls[c] \in ref.raised
              THEN TipsFor(ref.calls[c]) = RefFallback
              ELSE TipsFor(ref.calls[c]) = tips_of(ref.answers[c])

\* three files were selected; generation raised for the second and answered
\* the first and the third, which have their own bullet lists
C22_Witness ==
    /\ ref.st = "returned"
    /\ Len(ref.calls) = 3
    /\ ref.raised = {ref.calls[2]}
    /\ ref.ideas[1].tips = << <<"a", "b">> >>
    /\ ref.ideas[2].tips = RefFallback
    /\ ref.ideas[3].tips = << <<"a">>, <<"b">> >>

\* C23: an empty or whitespace-only answer gives the file the fallback list,
\* and no entry of refactor_ideas holds an empty string.
C23_EmptyAnswerFallback ==
    ref.st = "returned" =>
        /\ \A c \in 1..Len(ref.calls) :
              (\A n \in 1..Len(ref.answers[c]) : ref.answers[c][n] \in Whitespace)
                  => TipsFor(ref.calls[c]) = RefFallback
        /\ \A k \in 1..Len(ref.ideas) :
              \A n \in 1..Len(ref.ideas[k].tips) : ref.ideas[k].tips[n] # <<>>

\* position of a file among all files in the order descending cc_avg, then
\* ascending MI: the number of files that come before it, plus one
RefPlace(f, files) ==
    1 + Cardinality({k \in 1..Len(files) :
                        \/ files[k].cc_avg > f.cc_avg
                        \/ (files[k].cc_avg = f.cc_avg /\ files[k].mi < f.mi)})

\* C28: refactor_ideas has at most 3 entries, keyed by the first 3 files in
\* the order descending cc_avg then ascending MI (all files when fewer);
\* every value is a non-empty list of at most 5 strings; agent.generate is
\* called at most once per selected file and never for a file with MI > 85
\* and cc_avg < 2.
C28_RefactorIdeasShape ==
    ref.st = "returned" =>
        /\ Len(ref.ideas) = Min(3, Len(ref.files))
        /\ \A k \in 1..Len(ref.ideas) :
              /\ \E n \in 1..Len(ref.files) :
                    /\ ref.files[n].path = ref.ideas[k].path
                    /\ RefPlace(ref.files[n], ref.files) = k
              /\ Len(ref.ideas[k].tips) \in 1..5
        /\ \A c, d \in 1..Len(ref.calls) : c # d => ref.calls[c] # ref.calls[d]
        /\ \A c \in 1..Len(ref.calls) :
              \E n \in 1..Len(ref.files) :
                  /\ ref.files[n].path = ref.calls[c]
                  /\ RefPlace(ref.files[n], ref.files) <= 3
                  /\ ~(ref.files[n].mi > 8500 /\ ref.files[n].cc_avg < 200)

\* of four files three were selected, the last discovered first; a six-line
\* answer was cut to five tips
C28_Witness ==
    /\ ref.st = "returned"
    /\ Len(ref.files) = 4
    /\ Len(ref.ideas) = 3
    /\ ref.ideas[1].path = DiscoveryPath(4)
    /\ Len(ref.ideas[1].tips) = 5
    /\ Len(ref.calls) = 3

----------------------------------------------------------------------------
(* Claims about the rows of the comparison and the two implementations *)

\* C26: in every row delta is B - A to two decimals (in hundredths, ten times
\* the difference of the values in tenths); winner is tie exactly when delta
\* is 0; for quality_score and mi_avg winner is B exactly when delta > 0; for
\* the other four metrics winner is A exactly when delta > 0.
C26_DeltaAndWinner ==
    cpc = "compared" =>
        \A i \in 1..Len(cmp.metrics) :
            LET r == cmp.metrics[i]
            IN  /\ r.delta = 10 * (r.B - r.A)
                /\ (r.better = "=") <=> (r.delta = 0)
                /\ r.metric \in HigherIsBetter => ((r.better = "B") <=> (r.delta > 0))
                /\ r.metric \notin HigherIsBetter => ((r.better = "A") <=> (r.delta > 0))

\* B has more findings and the higher mean MI, the mean complexities are equal
C26_Witness ==
    /\ cpc = "compared"
    /\ a.present = AllKeys /\ b.present = AllKeys
    /\ cmp.metrics[2].delta > 0 /\ cmp.metrics[2].better = "A"
    /\ cmp.metrics[5].delta > 0 /\ cmp.metrics[5].better = "B"
    /\ cmp.metrics[6].delta = 0 /\ cmp.metrics[6].better = "="
    /\ cmp.metrics[1].delta < 0 /\ cmp.metrics[1].better = "A"

\* C29: for two well-formed results build_compare_payload and
\* compare_results give the same A, B, delta and winner in each of the six
\* rows and list the same files in the same order in top_hotspots.
C29_ImplementationsAgree ==
    (cpc = "compared" /\ payload.st = "built") =>
        /\ \A i \in 1..6 :
              /\ payload.metrics[i].A = 10 * cmp.metrics[i].A
              /\ payload.metrics[i].B = 10 * cmp.metrics[i].B
              /\ payload.metrics[i].delta = cmp.metrics[i].delta
              /\ payload.metrics[i].better = cmp.metrics[i].better
        /\ \A side \in {"A", "B"} :
              [k \in 1..Len(payload.top_hotspots[side]) |->
                    PathName(payload.top_hotspots[side][k].file)]
                = Listed(cmp.top_hotspots[side])

----------------------------------------------------------------------------
(* Claims about run_pipeline and run_analysis_with_adk_flow *)

\* C24: once quality_score is attached to a result, no later step of
\* run_pipeline adds, removes or changes a field of it.
C24_FrozenAfterScore ==
    [][flow.pc \in {"scored", "reporting"} => flow'.res = flow.res]_vars

\* the keys of the dictionary run_analysis_with_adk_flow is to return
ResultKeys ==
    {"files_scanned", "issues_found", "pylint", "radon", "refactor_ideas", "adk_message"}

\* C25: whatever path run_analysis_with_adk_flow takes, the dictionary it
\* returns has the keys files_scanned, issues_found, pylint, radon,
\* refactor_ideas and adk_message.
C25_AlwaysFullResult ==
    flow.pc = "analysed" => ResultKeys \subseteq flow.res.keys

\* C27: the result step_merge builds has files_scanned = number of file
\* records = radon summary files and issues_found = lint total + mi_warnings
\* + cc_hotspots; the lint summary of run_pylint has total = sum of the
\* counts by severity.
C27_MergeInvariants ==
    /\ "result" \in flow.ctx.keys =>
          LET r == flow.ctx.result
          IN  /\ r.files_scanned = Len(r.radon.files)
              /\ r.files_scanned = r.radon.summary.files
              /\ r.issues_found = r.pylint.summary.total
                                    + r.radon.summary.mi_warnings
                                    + r.radon.summary.cc_hotspots
    /\ "pylint" \in flow.ctx.keys =>
          LET s == flow.ctx.pylint.summary
          IN  s.total = SumOver(s.by_type, DOMAIN s.by_type)

\* two files, two lint findings, one MI warning and one CC hotspot merged
C27_Witness ==
    /\ "result" \in flow.ctx.keys
    /\ flow.ctx.result.files_scanned = 2
    /\ flow.ctx.result.pylint.summary.total = 2
    /\ flow.ctx.result.radon.summary.mi_warnings = 1
    /\ flow.ctx.result.radon.summary.cc_hotspots = 1
    /\ flow.ctx.result.issues_found = 4

\* the events of the log that are steps of the analysis
IsStep(e) == e \in {StepNames[k] : k \in 1..4}

====
